---- MODULE Spec2Model ----
(***************************************************************************)
(* A model of the HTML2PPTX converter (class HTML2PPTX of the html2pptx    *)
(* library): the rule table built from the stylesheet, the style cascade   *)
(* of getComputedStyle, the geometry of calculateElementPosition and       *)
(* calculateAbsolutePosition, the scaling to slide units and the driver    *)
(* loop of convert / processElements / processTextElement.                 *)
(*                                                                         *)
(* JavaScript numbers are modelled as exact rationals <<n, d>> (d > 0, in  *)
(* lowest terms); CSS values are records (a keyword, or a number with a    *)
(* unit); a style object is a function from property names to values.      *)
(***************************************************************************)
EXTENDS Integers, Sequences, FiniteSets, TLC

(***************************************************************************)
(* Exact arithmetic                                                        *)
(***************************************************************************)
Abs(n) == IF n < 0 THEN -n ELSE n

RECURSIVE GCD(_, _)
GCD(a, b) == IF b = 0 THEN a ELSE GCD(b, a % b)

\* n/d divided through by g.
Reduce(n, d, g) == <<n \div g, d \div g>>

\* The fraction n/d in lowest terms (d > 0).
Rat(n, d) == Reduce(n, d, GCD(Abs(n), d))

I(n) == <<n, 1>>

RAdd(a, b) == Rat(a[1] * b[2] + b[1] * a[2], a[2] * b[2])

RSub(a, b) == Rat(a[1] * b[2] - b[1] * a[2], a[2] * b[2])

RMul(a, b) == Rat(a[1] * b[1], a[2] * b[2])

RDiv(a, b) ==
    IF b[1] > 0 THEN Rat(a[1] * b[2], a[2] * b[1])
                ELSE Rat(-(a[1] * b[2]), a[2] * (-b[1]))

RLt(a, b) == a[1] * b[2] < b[1] * a[2]

RLe(a, b) == a[1] * b[2] <= b[1] * a[2]

Zero == I(0)

\* Math.round: the nearest integer, halves towards +infinity.
MathRound(a) == (2 * a[1] + a[2]) \div (2 * a[2])

\* Math.ceil(len / 50) for an integer length.
MathCeilDiv(len, k) == -((-len) \div k)

(***************************************************************************)
(* CSS values and style objects                                            *)
(***************************************************************************)
\* A keyword value such as 'flex' or 'center' (parseFloat gives NaN).
Kw(s) == [kw |-> s, n |-> Zero, unit |-> ""]

\* A numeric value with a unit: '400px', '0', '50%', '0.25rem' (kw is "#").
Dim(r, u) == [kw |-> "#", n |-> r, unit |-> u]

Px(k) == Dim(I(k), "px")

Num(k) == Dim(I(k), "")

\* The empty string: what split(':') leaves when a fragment has no value.
NoValue == Kw("")

EmptyStyle == [p \in {} |-> NoValue]

\* Object.assign(target, source)
Assign(target, source) ==
    [p \in (DOMAIN target) \cup (DOMAIN source) |->
        IF p \in DOMAIN source THEN source[p] ELSE target[p]]

\* style.prop as a condition: the property is present with a non-empty value.
Has(style, p) == p \in DOMAIN style /\ style[p] # NoValue

\* style.prop || dflt
Or(style, p, dflt) == IF Has(style, p) THEN style[p] ELSE dflt

\* style.prop === kw  (false when the property is absent)
Is(style, p, s) == p \in DOMAIN style /\ style[p] = Kw(s)

(***************************************************************************)
(* Unit conversion                                                         *)
(***************************************************************************)
\* strValue.includes('em') is also true of 'rem', so both take the em branch.
parsePixelValue(this, value) ==
    IF value = NoValue THEN Zero
    ELSE IF value.kw # "#" THEN Zero
    ELSE IF value.unit = "px" THEN value.n
    ELSE IF value.unit = "%"
        THEN RMul(RDiv(value.n, I(100)), this.options.htmlWidth)
    ELSE IF value.unit \in {"em", "rem"} THEN RMul(value.n, I(16))
    ELSE IF value.unit = "pt" THEN RMul(value.n, <<1333, 1000>>)
    ELSE IF value.unit = "vh"
        THEN RMul(RDiv(value.n, I(100)), this.options.htmlHeight)
    ELSE IF value.unit = "vw"
        THEN RMul(RDiv(value.n, I(100)), this.options.htmlWidth)
    ELSE value.n

parseFontSize(fontSize) ==
    IF fontSize = NoValue THEN I(18)
    ELSE IF fontSize.kw # "#" THEN I(18)
    ELSE IF fontSize.unit = "px"
        THEN I(MathRound(RMul(fontSize.n, <<85, 100>>)))
    ELSE IF fontSize.unit \in {"em", "rem"}
        THEN I(MathRound(RMul(RMul(fontSize.n, I(16)), <<85, 100>>)))
    ELSE I(MathRound(fontSize.n))

(***************************************************************************)
(* The document: d.nodes is the sequence of elements in document order     *)
(* (body first); an element is [tag, parent, cls, inline, text] where      *)
(* parent is the index of the parent element (0: the html element), cls    *)
(* the class attribute split at ' ', inline the style attribute split at   *)
(* ';' and ':' and text the length of the element's own text.  d.rules is  *)
(* the parsed stylesheet.                                                  *)
(***************************************************************************)
Elems(d) == 1..Len(d.nodes)

\* $elem.parent(): 0 stands for an empty selection (the parent of html).
Parent(d, e) == IF e = 0 THEN 0 ELSE d.nodes[e].parent

\* parent.children(), as the set of the element children of p.
ChildSet(d, p) == {c \in Elems(d) : d.nodes[c].parent = p}

\* siblings.index($elem[0]); body follows head under html.
SiblingIndex(d, e) ==
    IF d.nodes[e].parent = 0 THEN 1
    ELSE Cardinality({c \in ChildSet(d, d.nodes[e].parent) : c < e})

\* siblings.eq(i)
SiblingAt(d, p, i) ==
    CHOOSE c \in ChildSet(d, p) :
        Cardinality({b \in ChildSet(d, p) : b < c}) = i

RECURSIVE Descendant(_, _, _)
Descendant(d, e, a) ==
    /\ e # 0
    /\ d.nodes[e].parent # 0
    /\ (d.nodes[e].parent = a \/ Descendant(d, d.nodes[e].parent, a))

\* $elem.text().trim().length: the text of the element and its descendants.
RECURSIVE SumText(_, _)
SumText(d, S) ==
    IF S = {} THEN 0
    ELSE LET c == CHOOSE c \in S : TRUE
         IN d.nodes[c].text + SumText(d, S \ {c})

TextLength(d, e) ==
    SumText(d, {e} \cup {c \in Elems(d) : Descendant(d, c, e)})

(***************************************************************************)
(* The rule table this.styles: a sequence of [selector, decls] in          *)
(* insertion order, one entry per selector.  A selector is                 *)
(* [dot, name, pseudo, n]: 'p' is [FALSE, "p", FALSE, 0], '.box' is        *)
(* [TRUE, "box", FALSE, 0] and '.box:nth-child(3)' is [TRUE, "box", TRUE,  *)
(* 3].                                                                     *)
(***************************************************************************)
TagSel(t) == [dot |-> FALSE, name |-> t, pseudo |-> FALSE, n |-> 0]

ClassSel(c) == [dot |-> TRUE, name |-> c, pseudo |-> FALSE, n |-> 0]

NthSel(dot, name, n) == [dot |-> dot, name |-> name, pseudo |-> TRUE, n |-> n]

HasRule(table, sel) == \E i \in 1..Len(table) : table[i].selector = sel

\* this.styles[selector]
RuleOf(table, sel) ==
    table[CHOOSE i \in 1..Len(table) : table[i].selector = sel].decls

\* The declarations of one rule, folded into an object.
RECURSIVE DeclsToStyle(_, _)
DeclsToStyle(decls, acc) ==
    IF decls = <<>> THEN acc
    ELSE DeclsToStyle(Tail(decls),
            Assign(acc, [p \in {Head(decls).property} |-> Head(decls).value]))

\* AssignRule with the stored object replaced by the rule's declarations
\* instead of being extended by them.
AssignRule_replace(table, sel, st) ==
    IF HasRule(table, sel)
    THEN [i \in 1..Len(table) |->
            IF table[i].selector = sel
            THEN [selector |-> sel, decls |-> st]
            ELSE table[i]]
    ELSE Append(table, [selector |-> sel, decls |-> st])

\* Object.assign(this.styles[selector], styles), creating the entry first.
AssignRule(table, sel, st) ==
    IF HasRule(table, sel)
    THEN [i \in 1..Len(table) |->
            IF table[i].selector = sel
            THEN [selector |-> sel, decls |-> Assign(table[i].decls, st)]
            ELSE table[i]]
    ELSE Append(table, [selector |-> sel, decls |-> st])

RECURSIVE AssignSelectors(_, _, _)
AssignSelectors(table, sels, st) ==
    IF sels = <<>> THEN table
    ELSE AssignSelectors(AssignRule(table, Head(sels), st), Tail(sels), st)

RECURSIVE processCSSRules(_, _)
processCSSRules(table, rules) ==
    IF rules = <<>> THEN table
    ELSE processCSSRules(
            AssignSelectors(table, Head(rules).selectors,
                            DeclsToStyle(Head(rules).declarations, EmptyStyle)),
            Tail(rules))

(***************************************************************************)
(* The style cascade                                                       *)
(***************************************************************************)
tailwindMap ==
    ("flex" :> ("display" :> Kw("flex"))) @@
    ("flex-row" :> ("flex-direction" :> Kw("row"))) @@
    ("flex-col" :> ("flex-direction" :> Kw("column"))) @@
    ("items-center" :> ("align-items" :> Kw("center"))) @@
    ("items-start" :> ("align-items" :> Kw("flex-start"))) @@
    ("items-end" :> ("align-items" :> Kw("flex-end"))) @@
    ("justify-center" :> ("justify-content" :> Kw("center"))) @@
    ("justify-start" :> ("justify-content" :> Kw("flex-start"))) @@
    ("justify-end" :> ("justify-content" :> Kw("flex-end"))) @@
    ("justify-between" :> ("justify-content" :> Kw("space-between"))) @@
    ("text-center" :> ("text-align" :> Kw("center"))) @@
    ("text-left" :> ("text-align" :> Kw("left"))) @@
    ("text-right" :> ("text-align" :> Kw("right"))) @@
    ("gap-0" :> ("gap" :> Num(0))) @@
    ("gap-1" :> ("gap" :> Dim(<<1, 4>>, "rem"))) @@
    ("gap-2" :> ("gap" :> Dim(<<1, 2>>, "rem"))) @@
    ("gap-4" :> ("gap" :> Dim(I(1), "rem"))) @@
    ("gap-6" :> ("gap" :> Dim(<<3, 2>>, "rem"))) @@
    ("gap-8" :> ("gap" :> Dim(I(2), "rem"))) @@
    ("p-0" :> ("padding" :> Num(0))) @@
    ("p-4" :> ("padding" :> Dim(I(1), "rem"))) @@
    ("p-8" :> ("padding" :> Dim(I(2), "rem"))) @@
    ("p-16" :> ("padding" :> Dim(I(4), "rem")))

\* tailwindMap[className] || null, as the object to assign (empty for null).
getTailwindStyle(className) ==
    IF className \in DOMAIN tailwindMap THEN tailwindMap[className]
    ELSE EmptyStyle

\* One inline fragment: split(':') gives the property and the value.
InlineFragment(target, part) ==
    LET prop  == part.prop
        value == IF Len(part.parts) >= 1 THEN part.parts[1] ELSE NoValue
    IN IF prop # "" /\ value # NoValue
       THEN Assign(target, prop :> value)
       ELSE target

RECURSIVE parseInlineStyle(_, _)
parseInlineStyle(styleStr, target) ==
    IF styleStr = <<>> THEN target
    ELSE parseInlineStyle(Tail(styleStr), InlineFragment(target, Head(styleStr)))

\* The tag rule (lowest priority).
TagStep(this, tagName) ==
    IF HasRule(this.styles, TagSel(tagName))
    THEN RuleOf(this.styles, TagSel(tagName))
    ELSE EmptyStyle

\* classes.forEach: the class rule, then the Tailwind utility of the class.
\* if (this.styles[`.${className}`]) Object.assign(computedStyle, ...)
ClassRule(this, className, computedStyle) ==
    IF HasRule(this.styles, ClassSel(className))
    THEN Assign(computedStyle, RuleOf(this.styles, ClassSel(className)))
    ELSE computedStyle

\* One class of the element: nothing for the empty name, else the class
\* rule and then the Tailwind utility.
ClassOne(this, className, computedStyle) ==
    IF className = "" THEN computedStyle
    ELSE Assign(ClassRule(this, className, computedStyle),
                getTailwindStyle(className))

RECURSIVE ClassStep(_, _, _)
ClassStep(this, classes, computedStyle) ==
    IF classes = <<>> THEN computedStyle
    ELSE ClassStep(this, Tail(classes),
                   ClassOne(this, Head(classes), computedStyle))

\* NthMatches without the test of the base selector.
NthMatches_indexOnly(sel, tagName, classes, index) ==
    sel.pseudo /\ index = sel.n - 1

\* Whether the stored selector is an :nth-child rule that matches the element.
NthMatches(sel, tagName, classes, index) ==
    /\ sel.pseudo
    /\ index = sel.n - 1
    /\ IF sel.dot THEN \E i \in 1..Len(classes) : classes[i] = sel.name
                  ELSE sel.name = tagName

\* for (const selector in this.styles): every matching :nth-child rule, in
\* the insertion order of the table.
RECURSIVE NthStep(_, _, _, _, _)
NthStep(table, tagName, classes, index, computedStyle) ==
    IF table = <<>> THEN computedStyle
    ELSE NthStep(Tail(table), tagName, classes, index,
            IF NthMatches(Head(table).selector, tagName, classes, index)
            THEN Assign(computedStyle, Head(table).decls)
            ELSE computedStyle)

\* getComputedStyle with the style attribute applied first and the rules
\* assigned over it.
getComputedStyle_inlineFirst(this, d, e) ==
    NthStep(this.styles, d.nodes[e].tag, d.nodes[e].cls, SiblingIndex(d, e),
        ClassStep(this, d.nodes[e].cls,
            Assign(parseInlineStyle(d.nodes[e].inline, EmptyStyle),
                   TagStep(this, d.nodes[e].tag))))

\* Every modelled element has a parent (the parent of body is html), so the
\* :nth-child step always runs.
getComputedStyle(this, d, e) ==
    parseInlineStyle(d.nodes[e].inline,
        NthStep(this.styles, d.nodes[e].tag, d.nodes[e].cls, SiblingIndex(d, e),
            ClassStep(this, d.nodes[e].cls, TagStep(this, d.nodes[e].tag))))

(***************************************************************************)
(* Geometry                                                                *)
(***************************************************************************)
\* parentStyle.display === 'flex' && parentStyle['flex-direction'] === 'column'
IsFlexColumn(st) == Is(st, "display", "flex") /\ Is(st, "flex-direction", "column")

\* parsePixelValue(style[p] || '0'); the same number as the guarded form
\* if (style[p]) { ... parsePixelValue(style[p]) }, which adds nothing when
\* the property is absent.
Pixels(this, style, p) == parsePixelValue(this, Or(style, p, Num(0)))

\* lineHeight * lines + fontSize * 0.5, where lineHeight is the declared
\* line-height or fontSize * 1.2 and lines is Math.ceil(text.length / 50).
TextHeight(this, style, fontSize, len) ==
    RAdd(RMul(IF Has(style, "line-height")
              THEN parsePixelValue(this, style["line-height"])
              ELSE RMul(fontSize, <<12, 10>>),
              I(MathCeilDiv(len, 50))),
         RMul(fontSize, <<1, 2>>))

\* The declared height of an element, or the estimate from its text.
ElementHeight(this, style, len) ==
    IF Has(style, "height")
    THEN parsePixelValue(this, style["height"])
    ELSE TextHeight(this, style,
                    parseFontSize(Or(style, "font-size", Px(16))), len)

\* SiblingTerm with the height of the sibling estimated for a single line
\* of text.
SiblingTerm_oneLine(this, parentStyle, currentStyle, siblingStyle, len, last) ==
    RAdd(RAdd(ElementHeight(this, siblingStyle, 1),
              Pixels(this, siblingStyle, "margin-bottom")),
         RAdd(IF last THEN Pixels(this, currentStyle, "margin-top") ELSE Zero,
              IF IsFlexColumn(parentStyle)
              THEN Pixels(this, parentStyle, "gap") ELSE Zero))

\* One iteration of the loop over the preceding siblings: the height of the
\* sibling, its margin-bottom, the margin-top of the current element (after
\* the last sibling only) and the gap of a flex column.
SiblingTerm(this, parentStyle, currentStyle, siblingStyle, len, last) ==
    RAdd(RAdd(ElementHeight(this, siblingStyle, len),
              Pixels(this, siblingStyle, "margin-bottom")),
         RAdd(IF last THEN Pixels(this, currentStyle, "margin-top") ELSE Zero,
              IF IsFlexColumn(parentStyle)
              THEN Pixels(this, parentStyle, "gap") ELSE Zero))

\* for (let i = 0; i < index; i++)
RECURSIVE SiblingOffset(_, _, _, _, _, _, _)
SiblingOffset(this, d, e, parentStyle, currentStyle, index, i) ==
    IF i >= index THEN Zero
    ELSE RAdd(SiblingTerm(this, parentStyle, currentStyle,
                  getComputedStyle(this, d, SiblingAt(d, Parent(d, e), i)),
                  TextLength(d, SiblingAt(d, Parent(d, e), i)),
                  i = index - 1),
              SiblingOffset(this, d, e, parentStyle, currentStyle, index, i + 1))

\* The height of one child in the total content height of a centred group.
ContentHeight(this, sibStyle, len) ==
    RAdd(ElementHeight(this, sibStyle, len),
         RAdd(Pixels(this, sibStyle, "margin-top"),
              Pixels(this, sibStyle, "margin-bottom")))

\* siblings.each(...): the sum over the children of the parent.
RECURSIVE TotalContentHeight(_, _, _)
TotalContentHeight(this, d, S) ==
    IF S = {} THEN Zero
    ELSE LET c == CHOOSE c \in S : TRUE
         IN RAdd(ContentHeight(this, getComputedStyle(this, d, c), TextLength(d, c)),
                 TotalContentHeight(this, d, S \ {c}))

\* The offset inside the parent: x and y start at 0, y grows by the
\* preceding siblings, and both grow by the padding of the parent.
FlowOffset(this, d, e, parentStyle, currentStyle) ==
    [x |-> Pixels(this, parentStyle, "padding"),
     y |-> RAdd(SiblingOffset(this, d, e, parentStyle, currentStyle,
                              SiblingIndex(d, e), 0),
                Pixels(this, parentStyle, "padding"))]

\* AddParentPosition with the parent's position converted to slide units.
AddParentPosition_scaled(this, own, parentPos) ==
    [x |-> RAdd(own.x, RMul(parentPos.x, this.scaleX)),
     y |-> RAdd(own.y, RMul(parentPos.y, this.scaleY))]

\* x += parentPos.x; y += parentPos.y
AddParentPosition(this, own, parentPos) ==
    [x |-> RAdd(own.x, parentPos.x), y |-> RAdd(own.y, parentPos.y)]

\* parentWidth - parentPadding
AvailableWidth(this, parentStyle) ==
    RSub(parsePixelValue(this,
             Or(parentStyle, "width", Dim(this.options.htmlWidth, ""))),
         RMul(Pixels(this, parentStyle, "padding"), I(2)))

\* text-align: center on the element or on its parent.
AlignCentre(this, parentStyle, currentStyle, elemWidth, pos) ==
    IF \/ Is(currentStyle, "text-align", "center")
       \/ Is(parentStyle, "text-align", "center")
    THEN [x |-> RAdd(RSub(pos.x, Pixels(this, parentStyle, "padding")),
                     RDiv(RSub(AvailableWidth(this, parentStyle), elemWidth), I(2))),
          y |-> pos.y]
    ELSE pos

\* if (verticalOffset > 0) y += verticalOffset
AddVerticalOffset(pos, verticalOffset) ==
    IF RLt(Zero, verticalOffset)
    THEN [x |-> pos.x, y |-> RAdd(pos.y, verticalOffset)]
    ELSE pos

\* (grandParentHeight - totalContentHeight) / 2
VerticalOffset(this, d, parent, grandParentStyle) ==
    RDiv(RSub(parsePixelValue(this,
                  Or(grandParentStyle, "height",
                     Or(grandParentStyle, "min-height",
                        Dim(this.options.htmlHeight, "")))),
              TotalContentHeight(this, d, ChildSet(d, parent))),
         I(2))

\* FlexCentre without the test verticalOffset > 0.
FlexCentre_unguarded(this, d, parent, grandParentStyle, pos) ==
    IF /\ Is(grandParentStyle, "display", "flex")
       /\ Is(grandParentStyle, "justify-content", "center")
       /\ Is(grandParentStyle, "flex-direction", "column")
    THEN [x |-> pos.x,
          y |-> RAdd(pos.y, VerticalOffset(this, d, parent, grandParentStyle))]
    ELSE pos

\* The vertical centring of the group by a centred flex column above it.
FlexCentre(this, d, parent, grandParentStyle, pos) ==
    IF /\ Is(grandParentStyle, "display", "flex")
       /\ Is(grandParentStyle, "justify-content", "center")
       /\ Is(grandParentStyle, "flex-direction", "column")
    THEN AddVerticalOffset(pos, VerticalOffset(this, d, parent, grandParentStyle))
    ELSE pos

RECURSIVE calculateAbsolutePosition(_, _, _, _, _, _)

\* this.calculateAbsolutePosition($, parent, grandParentStyle, parentWidth,
\* parentHeight)
ParentPosition(this, d, parent, grandParentStyle, parentComputedStyle) ==
    calculateAbsolutePosition(this, d, parent, grandParentStyle,
        parsePixelValue(this,
            Or(parentComputedStyle, "width", Dim(this.options.htmlWidth, ""))),
        parsePixelValue(this,
            Or(parentComputedStyle, "height",
               Or(parentComputedStyle, "min-height", Num(0)))))

\* The offset in the parent, moved by the position of the parent and then
\* centred horizontally.
PlaceInParent(this, d, e, parentStyle, currentStyle, elemWidth, parentPos) ==
    AlignCentre(this, parentStyle, currentStyle, elemWidth,
        AddParentPosition(this,
            FlowOffset(this, d, e, parentStyle, currentStyle), parentPos))

\* The position of an element in HTML pixels.  Below a child of body the
\* position of the parent is added (recursively) and the group is centred
\* vertically; a child of body has neither step.
calculateAbsolutePosition(this, d, e, parentStyle, elemWidth, elemHeight) ==
    IF d.nodes[Parent(d, e)].tag = "body"
    THEN PlaceInParent(this, d, e, parentStyle, getComputedStyle(this, d, e),
                       elemWidth, [x |-> Zero, y |-> Zero])
    ELSE FlexCentre(this, d, Parent(d, e),
             getComputedStyle(this, d, Parent(d, Parent(d, e))),
             PlaceInParent(this, d, e, parentStyle, getComputedStyle(this, d, e),
                 elemWidth,
                 ParentPosition(this, d, Parent(d, e),
                     getComputedStyle(this, d, Parent(d, Parent(d, e))),
                     getComputedStyle(this, d, Parent(d, e)))))

\* The number of children of the flex container that declare flex.
FlexCount(this, d, parent) ==
    Cardinality({el \in ChildSet(d, parent) :
                    Has(getComputedStyle(this, d, el), "flex")})

\* style.width, or the width of the parent less its padding, or 80% of the
\* slide.
ElementWidth(this, style, parentStyle) ==
    IF Has(style, "width") THEN parsePixelValue(this, style["width"])
    ELSE IF Has(parentStyle, "width")
    THEN RSub(parsePixelValue(this, parentStyle["width"]),
              RMul(Pixels(this, parentStyle, "padding"), I(2)))
    ELSE RMul(this.options.htmlWidth, <<8, 10>>)

\* availableHeight / flexCount
FlexHeight(this, d, parent, parentStyle) ==
    RDiv(RSub(RSub(parsePixelValue(this,
                       Or(parentStyle, "height",
                          Or(parentStyle, "min-height", Px(720)))),
                   RMul(Pixels(this, parentStyle, "padding"), I(2))),
              RMul(Pixels(this, parentStyle, "gap"),
                   I(Cardinality(ChildSet(d, parent)) - 1))),
         I(FlexCount(this, d, parent)))

\* The height that is returned: the flex height for a flex item of a flex
\* column, the height computed first otherwise.
FinalHeight(this, d, e, style, parentStyle) ==
    IF IsFlexColumn(parentStyle) /\ Has(style, "flex")
    THEN FlexHeight(this, d, Parent(d, e), parentStyle)
    ELSE ElementHeight(this, style, TextLength(d, e))

\* The conversion to slide units, applied once to the four numbers.
ApplyScaling(this, position, w, h) ==
    [x |-> RMul(position.x, this.scaleX),
     y |-> RMul(position.y, this.scaleY),
     w |-> RMul(w, this.scaleX),
     h |-> RMul(h, this.scaleY)]

\* calculateElementPosition once the style of the parent is known.
PositionIn(this, d, e, style, parentStyle) ==
    ApplyScaling(this,
        calculateAbsolutePosition(this, d, e, parentStyle,
            ElementWidth(this, style, parentStyle),
            ElementHeight(this, style, TextLength(d, e))),
        ElementWidth(this, style, parentStyle),
        FinalHeight(this, d, e, style, parentStyle))

\* The geometry of an element in slide units.
calculateElementPosition(this, d, e, style) ==
    PositionIn(this, d, e, style, getComputedStyle(this, d, Parent(d, e)))

(***************************************************************************)
(* The driver                                                              *)
(***************************************************************************)
HasClass(d, e, c) == \E i \in 1..Len(d.nodes[e].cls) : d.nodes[e].cls[i] = c

Min(S) == CHOOSE m \in S : \A o \in S : m <= o

\* The elements of S in document order.
RECURSIVE InOrder(_)
InOrder(S) ==
    IF S = {} THEN <<>>
    ELSE <<Min(S)>> \o InOrder(S \ {Min(S)})

\* $(selector) for the six container selectors, in their order of preference.
ContainerMatches(d, k) ==
    CASE k = 1 -> {e \in Elems(d) : HasClass(d, e, "slide-container")}
      [] k = 2 -> {e \in Elems(d) : HasClass(d, e, "slide")}
      [] k = 3 -> {e \in Elems(d) : HasClass(d, e, "container")}
      [] k = 4 -> {e \in Elems(d) : d.nodes[e].tag = "main"}
      [] k = 5 -> {e \in Elems(d) :
                      /\ d.nodes[e].tag = "div"
                      /\ d.nodes[e].parent # 0
                      /\ d.nodes[d.nodes[e].parent].tag = "body"
                      /\ SiblingIndex(d, e) = 0}
      [] OTHER -> {e \in Elems(d) : d.nodes[e].tag = "body"}

findMainContainer(d) ==
    LET k == Min({j \in 1..6 : ContainerMatches(d, j) # {}})
    IN Min(ContainerMatches(d, k))

\* if (style.width) { ... if (width > 0) this.options.htmlWidth = width }
SetWidth(this, style) ==
    IF Has(style, "width") /\ RLt(Zero, parsePixelValue(this, style["width"]))
    THEN [this EXCEPT !.options.htmlWidth = parsePixelValue(this, style["width"])]
    ELSE this

\* if (style.height || style['min-height']) { ... this.options.htmlHeight }
SetHeight(this, style) ==
    IF /\ Has(style, "height") \/ Has(style, "min-height")
       /\ RLt(Zero, parsePixelValue(this, Or(style, "height", style["min-height"])))
    THEN [this.options EXCEPT !.htmlHeight =
             parsePixelValue(this, Or(style, "height", style["min-height"]))]
    ELSE this.options

\* DimensionsFrom without the update of the height.
DimensionsFrom_widthOnly(this, style) == SetWidth(this, style).options

\* The options after reading the size of the container: the width first,
\* then the height (converted with the width already updated).
DimensionsFrom(this, style) == SetHeight(SetWidth(this, style), style)

updateDimensionsFromContainer(this, d, container) ==
    DimensionsFrom(this, getComputedStyle(this, d, container))

textTags ==
    {"h1", "h2", "h3", "h4", "h5", "h6", "p", "span", "div", "li", "td",
     "th", "label", "a"}

\* An element child with a text tag and some text.
hasTextChildren(d, e) ==
    \E child \in ChildSet(d, e) :
        d.nodes[child].tag \in textTags /\ TextLength(d, child) > 0

\* The elements below the container that are pushed to leafElements.
IsLeafText(d, e) ==
    LET directText == d.nodes[e].text > 0
    IN /\ d.nodes[e].tag \in textTags
       /\ \/ directText /\ ~hasTextChildren(d, e)
          \/ ~hasTextChildren(d, e) /\ TextLength(d, e) > 0

\* findLeafTextElements with the elements pushed in reverse document order.
findLeafTextElements_reversed(d, container) ==
    LET leaves == InOrder({e \in Elems(d) : Descendant(d, e, container) /\ IsLeafText(d, e)})
    IN [i \in 1..Len(leaves) |-> leaves[Len(leaves) + 1 - i]]

\* container.find('*').each(...) visits the elements in document order.
findLeafTextElements(d, container) ==
    InOrder({e \in Elems(d) : Descendant(d, e, container) /\ IsLeafText(d, e)})

\* One external call made by convert or fixPPTX and whether it returned.
Step(call, ok) == [call |-> call, ok |-> ok]

\* The calls of processSVGElements for one svg: its lines, then its texts.
SvgCalls(d, svg) ==
    [i \in 1..Cardinality({n \in Elems(d) : Descendant(d, n, svg)
                                             /\ d.nodes[n].tag = "line"})
        |-> Step("addShape", TRUE)]
    \o [i \in 1..Cardinality({n \in Elems(d) : Descendant(d, n, svg)
                                               /\ d.nodes[n].tag = "text"})
        |-> Step("addText", TRUE)]

RECURSIVE SvgCallsOf(_, _)
SvgCallsOf(d, svgs) ==
    IF svgs = <<>> THEN <<>>
    ELSE SvgCalls(d, Head(svgs)) \o SvgCallsOf(d, Tail(svgs))

\* container.find('svg').each(...)
processSVGElements(d, container) ==
    SvgCallsOf(d, InOrder({n \in Elems(d) : Descendant(d, n, container)
                                            /\ d.nodes[n].tag = "svg"}))

\* slide.addText(text, {x, y, w, h, ...}): calculateElementPosition always
\* returns an object, so the !position branch is never taken.
addText(boxes, e, position) ==
    Append(boxes, [elem |-> e, x |-> position.x, y |-> position.y,
                   w |-> position.w, h |-> position.h])

processTextElement(this, d, boxes, e) ==
    IF TextLength(d, e) = 0 THEN boxes
    ELSE addText(boxes, e,
             calculateElementPosition(this, d, e, getComputedStyle(this, d, e)))

\* AfterResolution with the rule object of the tag used as computedStyle
\* itself instead of being copied into a fresh object.
AfterResolution_aliased(this, d, e) ==
    IF HasRule(this.styles, TagSel(d.nodes[e].tag))
    THEN [this EXCEPT !.styles = AssignRule(this.styles, TagSel(d.nodes[e].tag),
                                            getComputedStyle(this, d, e))]
    ELSE this

\* The instance after getComputedStyle and calculateElementPosition ran for
\* e: computedStyle is a fresh object and the target of every Object.assign
\* and of parseInlineStyle, the rule objects and the Tailwind objects are
\* only sources, and neither method assigns to this.options, this.styles or
\* the scale factors.
AfterResolution(this, d, e) == this

(***************************************************************************)
(* PPTXFixer.fixXML.  The XML text is a sequence of elements in textual    *)
(* order; an element is [name, attrs, kids, closed]: attrs the attributes  *)
(* in textual order as [k, v], kids the names of the (self-closing) child  *)
(* elements in textual order and closed "self" for <x/> or "pair" for      *)
(* <x>...</x>.  An attribute value is [s, n]: a string of digits is        *)
(* [s |-> "#", n |-> the number], any other string has n = 0, except       *)
(* 'Shape <id>', which is [s |-> "Shape", n |-> id].                       *)
(***************************************************************************)
Str(s) == [s |-> s, n |-> 0]

NumStr(n) == [s |-> "#", n |-> n]

Attr(k, v) == [k |-> k, v |-> v]

Xml(name, attrs, kids, closed) ==
    [name |-> name, attrs |-> attrs, kids |-> kids, closed |-> closed]

\* \d+ : a string of digits (no sign).
IsDigits(v) == v.s = "#" /\ v.n >= 0

\* The element reads <name k1="\d+" k2=...>, with exactly these two
\* attributes in this order.
TwoAttrs(el, name, k1, k2) ==
    /\ el.name = name
    /\ Len(el.attrs) = 2
    /\ el.attrs[1].k = k1 /\ IsDigits(el.attrs[1].v)
    /\ el.attrs[2].k = k2

\* FIX 1: <p:cNvPr id="X" name=""/> and <p:cNvPr id="X" name="">text</p:cNvPr>
FixEmptyName(el) ==
    IF TwoAttrs(el, "p:cNvPr", "id", "name") /\ el.attrs[2].v = Str("")
          /\ el.kids = <<>>
    THEN [el EXCEPT !.attrs[2].v = [s |-> "Shape", n |-> el.attrs[1].v.n]]
    ELSE el

\* FIX 2: <a:ln></a:ln> and <a:ln/> are removed.
IsEmptyLn(el) == el.name = "a:ln" /\ el.attrs = <<>> /\ el.kids = <<>>

\* FIX 3: <a:ext cx="0" cy="0"/>, <a:ext cx="0" cy="N"/>, <a:ext cx="N" cy="0"/>
FixZeroExt(el) ==
    IF /\ TwoAttrs(el, "a:ext", "cx", "cy") /\ IsDigits(el.attrs[2].v)
       /\ el.closed = "self" /\ el.kids = <<>>
    THEN [el EXCEPT !.attrs[1].v = IF @ = NumStr(0) THEN NumStr(1) ELSE @,
                    !.attrs[2].v = IF @ = NumStr(0) THEN NumStr(1) ELSE @]
    ELSE el

\* kids without its i-th entry.
RemoveAt(kids, i) == SubSeq(kids, 1, i - 1) \o SubSeq(kids, i + 1, Len(kids))

\* The first <a:normAutofit/> and the first <a:spAutoFit/> after it.
FirstAt(kids, name, from) ==
    CHOOSE i \in from..Len(kids) :
        kids[i] = name /\ \A j \in from..(i - 1) : kids[j] # name

\* FIX 4: inside <a:bodyPr ...>, a <a:spAutoFit/> that follows a
\* <a:normAutofit/> is removed.
FixAutofit(el) ==
    IF /\ el.name = "a:bodyPr"
       /\ \E i, j \in 1..Len(el.kids) :
              i < j /\ el.kids[i] = "a:normAutofit" /\ el.kids[j] = "a:spAutoFit"
    THEN [el EXCEPT !.kids =
             RemoveAt(@, FirstAt(@, "a:spAutoFit", FirstAt(@, "a:normAutofit", 1)))]
    ELSE el

\* FIX 5 on one attribute: cy="N" with 0 < N < 10000 becomes cy="10000".
FixSmallCy(a) ==
    IF a.k = "cy" /\ IsDigits(a.v) /\ a.v.n > 0 /\ a.v.n < 10000
    THEN [a EXCEPT !.v = NumStr(10000)]
    ELSE a

\* FIX 6 on one attribute: charset="-N" becomes charset="0".
FixCharset(a) ==
    IF a.k = "charset" /\ a.v.s = "#" /\ a.v.n < 0
    THEN [a EXCEPT !.v = NumStr(0)]
    ELSE a

\* FIX 5 and FIX 6 on every attribute of an element.
FixAttrs(el) ==
    [el EXCEPT !.attrs = [i \in 1..Len(@) |-> FixCharset(FixSmallCy(@[i]))]]

\* The six fixes in their order; FIX 1, 3, 4, 5 and 6 rewrite an element in
\* place and FIX 2 drops elements.
fixXML(xml) ==
    LET kept == SelectSeq([i \in 1..Len(xml) |-> FixEmptyName(xml[i])],
                          LAMBDA el : ~IsEmptyLn(el))
    IN [i \in 1..Len(kept) |-> FixAttrs(FixAutofit(FixZeroExt(kept[i])))]

\* The number of elements that differ between the text s and the text t
\* that a fix made of it in place: the replacements of that fix.
Changed(s, t) == Cardinality({i \in 1..Len(s) : t[i] # s[i]})

\* The same for the attributes of the elements.
ChangedAttrs(s, t) ==
    Cardinality({a \in UNION {{<<i, j>> : j \in 1..Len(s[i].attrs)} : i \in 1..Len(s)} :
                    t[a[1]].attrs[a[2]] # s[a[1]].attrs[a[2]]})

\* FIX 2 counting the <a:ln></a:ln> only.
CountEmptyLn_pairsOnly(s) ==
    Cardinality({i \in 1..Len(s) : IsEmptyLn(s[i]) /\ s[i].closed = "pair"})

\* FIX 2 counts every <a:ln></a:ln>, and a <a:ln/> only while the text is
\* still what it was before FIX 2 (fixed !== beforeLnFix is false), that is
\* when no <a:ln></a:ln> was removed.
CountEmptyLn(s) ==
    LET pairs == Cardinality({i \in 1..Len(s) : IsEmptyLn(s[i]) /\ s[i].closed = "pair"})
        selfs == Cardinality({i \in 1..Len(s) : IsEmptyLn(s[i]) /\ s[i].closed = "self"})
    IN IF pairs > 0 THEN pairs ELSE selfs

\* The texts between the fixes.
AfterFix1(xml) == [i \in 1..Len(xml) |-> FixEmptyName(xml[i])]

AfterFix2(xml) == SelectSeq(AfterFix1(xml), LAMBDA el : ~IsEmptyLn(el))

AfterFix3(xml) == [i \in 1..Len(AfterFix2(xml)) |-> FixZeroExt(AfterFix2(xml)[i])]

AfterFix4(xml) == [i \in 1..Len(AfterFix3(xml)) |-> FixAutofit(AfterFix3(xml)[i])]

AfterFix5(xml) ==
    [i \in 1..Len(AfterFix4(xml)) |->
        [AfterFix4(xml)[i] EXCEPT !.attrs = [j \in 1..Len(@) |-> FixSmallCy(@[j])]]]

\* this.fixCount after fixXML(xml), starting from 0: one for every
\* replacement callback that counts.
fixCountOf(xml) ==
    Changed(xml, AfterFix1(xml)) + CountEmptyLn(AfterFix1(xml))
        + Changed(AfterFix2(xml), AfterFix3(xml))
        + Changed(AfterFix3(xml), AfterFix4(xml))
        + ChangedAttrs(AfterFix4(xml), AfterFix5(xml))
        + ChangedAttrs(AfterFix5(xml), fixXML(xml))

\* The calls fixPPTX makes when it finds fixes to write, up to the call
\* that throws.
RewriteCalls(fail) ==
    CASE fail = "copyFileSync" -> <<Step("copyFileSync", FALSE)>>
      [] fail = "writeZip" -> <<Step("copyFileSync", TRUE), Step("writeZip", FALSE)>>
      [] fail = "unlinkSync" -> <<Step("copyFileSync", TRUE), Step("writeZip", TRUE),
                                  Step("unlinkSync", FALSE)>>
      [] OTHER -> <<Step("copyFileSync", TRUE), Step("writeZip", TRUE),
                    Step("unlinkSync", TRUE)>>

\* if (this.fixCount > 0)
ShouldRewrite(xml) == fixCountOf(xml) > 0

\* fixPPTX(filePath) on a file whose XML is xml, where fail names the call
\* that throws ("none": no call throws).  The result: the XML of the file
\* and whether the backup exists afterwards, fixCount, the calls made and
\* whether fixPPTX threw.  A writeZip that throws leaves the file as it was.
fixPPTX(xml, fail) ==
    IF fail = "AdmZip"
    THEN [xml |-> xml, backup |-> FALSE, fixCount |-> 0,
          calls |-> <<Step("AdmZip", FALSE)>>, threw |-> TRUE]
    ELSE IF ~ShouldRewrite(xml)
    THEN [xml |-> xml, backup |-> FALSE, fixCount |-> fixCountOf(xml),
          calls |-> <<Step("AdmZip", TRUE)>>, threw |-> FALSE]
    ELSE [xml |-> IF fail \in {"copyFileSync", "writeZip"} THEN xml ELSE fixXML(xml),
          backup |-> fail \in {"writeZip", "unlinkSync"},
          fixCount |-> fixCountOf(xml),
          calls |-> <<Step("AdmZip", TRUE)>> \o RewriteCalls(fail),
          threw |-> fail # "none"]

(***************************************************************************)
(* Input documents                                                         *)
(***************************************************************************)
MaxChildren == 3

MaxFlexItems == 4

MaxNth == 3

El(tag, parent, cls, inline, text) ==
    [tag |-> tag, parent |-> parent, cls |-> cls, inline |-> inline, text |-> text]

\* 'prop: value' in a style attribute.
D(prop, value) == [prop |-> prop, parts |-> <<value>>]

\* The empty fragment after a trailing ';'.
Trailing == [prop |-> "", parts |-> <<>>]

Rule(selectors, declarations) ==
    [selectors |-> selectors, declarations |-> declarations]

Decl(property, value) == [property |-> property, value |-> value]

SeqsUpTo(S, k) == UNION {[1..n -> S] : n \in 1..k}

Body == El("body", 0, <<>>, <<>>, 0)

\* body > div > children, with a stylesheet of tag, class and :nth-child rules.
CascadeKinds ==
    { El("p",   2, <<>>,           <<>>, 5),
      El("p",   2, <<"x">>,        <<D("color", Kw("green")), Trailing>>, 5),
      El("p",   2, <<"box">>,      <<>>, 5),
      El("p",   2, <<"x", "box">>, <<D("color", Kw("green"))>>, 5),
      El("div", 2, <<"box">>,      <<>>, 5),
      El("div", 2, <<"x">>,        <<[prop |-> "color", parts |-> <<>>]>>, 5) }

Sheet1(n) ==
    << Rule(<<TagSel("p")>>, <<Decl("color", Kw("red"))>>),
       Rule(<<ClassSel("x")>>, <<Decl("color", Kw("blue"))>>),
       Rule(<<NthSel(TRUE, "box", n)>>,
            <<Decl("color", Kw("purple")), Decl("border-color", Kw("purple"))>>) >>

Sheet2(n) ==
    << Rule(<<NthSel(FALSE, "p", n)>>,
            <<Decl("color", Kw("orange")), Decl("font-weight", Kw("bold"))>>),
       Rule(<<ClassSel("x"), ClassSel("box")>>, <<Decl("color", Kw("blue"))>>) >>

CascadeDocs ==
    { [nodes |-> <<Body, El("div", 1, <<>>, <<>>, 0)>> \o kids, rules |-> sheet] :
        kids \in SeqsUpTo(CascadeKinds, MaxChildren),
        sheet \in {Sheet1(n) : n \in 1..MaxNth} \cup {Sheet2(n) : n \in 1..MaxNth} }

\* Two :nth-child rules that match the same element, the first selector
\* declared again after the second.
Sheet3(n) ==
    << Rule(<<NthSel(TRUE, "box", n)>>, <<Decl("color", Kw("purple"))>>),
       Rule(<<NthSel(FALSE, "p", n)>>,
            <<Decl("color", Kw("orange")), Decl("font-weight", Kw("bold"))>>),
       Rule(<<NthSel(TRUE, "box", n)>>,
            <<Decl("color", Kw("teal")), Decl("font-weight", Kw("normal"))>>) >>

RedeclaredKinds ==
    { El("p",   2, <<"box">>, <<>>, 5),
      El("p",   2, <<"box">>, <<D("color", Kw("green"))>>, 5),
      El("div", 2, <<"box">>, <<>>, 5) }

\* Selectors declared several times, alone and in a selector list, with a
\* property declared twice in one rule.
Sheet4 ==
    << Rule(<<TagSel("p")>>,
            <<Decl("color", Kw("red")), Decl("border-color", Kw("red"))>>),
       Rule(<<ClassSel("box")>>, <<Decl("color", Kw("blue"))>>),
       Rule(<<TagSel("p"), ClassSel("box")>>,
            <<Decl("color", Kw("gray")), Decl("font-weight", Kw("bold")),
              Decl("color", Kw("black"))>>),
       Rule(<<TagSel("div")>>, <<Decl("font-weight", Kw("normal"))>>) >>

RedeclaredDocs ==
    { [nodes |-> <<Body, El("div", 1, <<>>, <<>>, 0)>> \o kids, rules |-> sheet] :
        kids \in SeqsUpTo(RedeclaredKinds, MaxChildren),
        sheet \in {Sheet3(n) : n \in 1..MaxNth} \cup {Sheet4} }

\* body > div.slide-container > div > children, styled inline.
LayoutDoc(containerStyle, parentStyle, kids) ==
    [nodes |-> << Body,
                  El("div", 1, <<"slide-container">>, containerStyle, 0),
                  El("div", 2, <<>>, parentStyle, 0) >> \o kids,
     rules |-> <<>>]

FlexParents ==
    { << D("display", Kw("flex")), D("flex-direction", Kw("column")),
         D("height", Px(400)), D("gap", Px(20)) >>,
      << D("display", Kw("flex")), D("flex-direction", Kw("column")),
         D("padding", Px(10)) >> }

FlexKinds ==
    { El("div", 3, <<>>, <<D("flex", Num(1))>>, 5),
      El("div", 3, <<>>, <<>>, 5),
      El("div", 3, <<>>, <<D("height", Px(50))>>, 120) }

FlexDocs ==
    { LayoutDoc(<<>>, ps, kids) :
        ps \in FlexParents, kids \in SeqsUpTo(FlexKinds, MaxFlexItems) }

FlowContainers ==
    { <<>>,
      << D("width", Px(1000)), D("height", Px(500)), D("padding", Px(40)) >> }

FlowParents ==
    { <<>>,
      << D("width", Px(100)), D("padding", Px(60)) >>,
      << D("padding", Px(20)), D("text-align", Kw("center")) >>,
      << D("display", Kw("flex")) >> }

FlowKinds ==
    { El("p", 3, <<>>, <<>>, 5),
      El("p", 3, <<>>, <<D("margin-top", Px(20))>>, 5),
      El("p", 3, <<>>, <<D("height", Px(400)), D("margin-bottom", Px(10))>>, 5),
      El("p", 3, <<>>, <<D("width", Num(0))>>, 5),
      El("div", 3, <<>>, << D("position", Kw("absolute")), D("left", Px(100)),
                            D("top", Px(50)), D("width", Px(200)),
                            D("height", Px(80)) >>, 5) }

FlowDocs ==
    { LayoutDoc(cs, ps, kids) :
        cs \in FlowContainers, ps \in FlowParents,
        kids \in SeqsUpTo(FlowKinds, MaxChildren) }

\* A box of 100 x 50 centred in a parent of width 1380, below a box of height 360.
CentredDoc ==
    LayoutDoc(<<>>, <<D("width", Px(1380))>>,
              << El("p", 3, <<>>, <<D("height", Px(360))>>, 5),
                 El("p", 3, <<>>, << D("width", Px(100)), D("height", Px(50)),
                                     D("text-align", Kw("center")) >>, 5) >>)

\* body > div.slide-container > div > (ul | section | div) > (li | p | strong),
\* the outer div with or without text of its own.
NestedDocs ==
    { [nodes |-> << Body,
                    El("div", 1, <<"slide-container">>, <<>>, 0),
                    El("div", 2, <<>>, <<>>, own),
                    El(mid, 3, <<>>, <<>>, 0),
                    El(leaf, 4, <<>>, <<>>, 5) >>,
       rules |-> <<>>] :
        own \in {0, 5}, mid \in {"ul", "section", "div"},
        leaf \in {"li", "p", "strong"} }

\* Containers whose declared size is partly unusable: a zero width with a
\* min-height, a negative height, a keyword width with a zero height.
SizedContainers ==
    { << D("width", Num(0)), D("min-height", Px(600)) >>,
      << D("width", Px(640)), D("height", Dim(I(-10), "px")) >>,
      << D("width", Kw("auto")), D("height", Px(0)), D("min-height", Px(600)) >> }

SizedDocs ==
    { LayoutDoc(cs, <<>>, << El("p", 3, <<>>, <<>>, 5) >>) : cs \in SizedContainers }

\* A group of children below a container that centres its content
\* vertically, with room to spare (the default canvas height) or without
\* (a declared height of 100px).
CentringContainers ==
    { << D("display", Kw("flex")), D("flex-direction", Kw("column")),
         D("justify-content", Kw("center")) >>,
      << D("display", Kw("flex")), D("flex-direction", Kw("column")),
         D("justify-content", Kw("center")), D("height", Px(100)) >> }

CentredKinds ==
    { El("p", 3, <<>>, <<>>, 5),
      El("p", 3, <<>>, <<D("margin-top", Px(20))>>, 5),
      El("p", 3, <<>>, <<D("height", Px(400)), D("margin-bottom", Px(10))>>, 5) }

CentredColumnDocs ==
    { LayoutDoc(cs, <<>>, kids) :
        cs \in CentringContainers, kids \in SeqsUpTo(CentredKinds, MaxChildren) }

\* Paragraphs in normal flow whose height comes from their text: several
\* lines, a declared font size, a declared line height.
TextKinds ==
    { El("p", 3, <<>>, <<D("font-size", Px(20))>>, 120),
      El("p", 3, <<>>, <<D("line-height", Px(30)), D("margin-bottom", Px(10))>>, 51),
      El("p", 3, <<>>, <<D("font-size", Dim(I(2), "em")),
                         D("margin-top", Px(8))>>, 5) }

TextDocs ==
    { LayoutDoc(<<>>, <<>>, kids) : kids \in SeqsUpTo(TextKinds, MaxChildren) }

\* A flex column below a container that declares the size of the canvas.
SizedFlexDocs ==
    { LayoutDoc(<< D("width", Px(1000)), D("height", Px(500)) >>, ps, kids) :
        ps \in FlexParents, kids \in SeqsUpTo(FlexKinds, MaxChildren) }

\* A paragraph inside an absolutely positioned box, after another box.
AbsoluteParentDoc ==
    [nodes |-> << Body,
                  El("div", 1, <<"slide-container">>, <<>>, 0),
                  El("div", 2, <<>>, <<D("height", Px(200))>>, 5),
                  El("div", 2, <<>>, << D("position", Kw("absolute")),
                                        D("left", Px(100)), D("top", Px(50)) >>, 0),
                  El("p", 4, <<>>, <<>>, 5) >>,
     rules |-> <<>>]

\* style="color: red; background: url(http://x/y.png); : blue; margin-top:;
\* height: 50px;": a value with a ':' in it, a fragment without a name, one
\* without a value and the empty fragment after the last ';'.
FragmentsDoc ==
    LayoutDoc(<<>>, <<>>,
        << El("p", 3, <<>>,
              << D("color", Kw("red")),
                 [prop |-> "background", parts |-> <<Kw("url(http"), Kw("//x/y.png)")>>],
                 [prop |-> "", parts |-> <<Kw("blue")>>],
                 [prop |-> "margin-top", parts |-> <<NoValue>>],
                 D("height", Px(50)),
                 Trailing >>, 5) >>)

\* Two paragraphs with an svg of two lines and a text between them, and the
\* same with the svg first.
SvgDoc ==
    [nodes |-> << Body,
                  El("div", 1, <<"slide-container">>, <<>>, 0),
                  El("div", 2, <<>>, <<>>, 0),
                  El("p", 3, <<>>, <<>>, 5),
                  El("svg", 3, <<>>, <<>>, 0),
                  El("line", 5, <<>>, <<>>, 0),
                  El("text", 5, <<>>, <<>>, 4),
                  El("line", 5, <<>>, <<>>, 0),
                  El("p", 3, <<>>, <<>>, 5) >>,
     rules |-> <<>>]

SvgFirstDoc ==
    [nodes |-> << Body,
                  El("div", 1, <<"slide-container">>, <<>>, 0),
                  El("svg", 2, <<>>, <<>>, 0),
                  El("line", 3, <<>>, <<>>, 0),
                  El("h1", 2, <<>>, <<>>, 5),
                  El("p", 2, <<>>, <<>>, 5) >>,
     rules |-> <<>>]

Docs ==
    CascadeDocs \cup RedeclaredDocs \cup FlexDocs \cup FlowDocs \cup NestedDocs \cup SizedDocs
        \cup CentredColumnDocs \cup TextDocs \cup SizedFlexDocs
        \cup {CentredDoc, AbsoluteParentDoc, FragmentsDoc, SvgDoc, SvgFirstDoc}

NoDoc == [nodes |-> <<>>, rules |-> <<>>]

(***************************************************************************)
(* The converter as a state machine                                        *)
(***************************************************************************)
VARIABLES options, styles, scaleX, scaleY, doc, container, textElements,
          cursor, slide, pc, xml, calls, fixCount, backup,
          gpc, browser, launches, outcome, settled

vars == <<options, styles, scaleX, scaleY, doc, container, textElements,
          cursor, slide, pc, xml, calls, fixCount, backup,
          gpc, browser, launches, outcome, settled>>

\* What the conversion does outside the instance: the XML of the written
\* file, the calls made to the file system, to PptxGenJS (addSlide,
\* writeFile, and addShape and addText for SVG content) and to the fixer,
\* in their order, the fixCount of the fixer and whether the '.backup' file
\* exists.
fileVars == <<xml, calls, fixCount, backup>>

\* The state of getElementDimensions: its position, the local variable
\* browser, the sessions launched by the current call, the pending result
\* and the results of the calls that have settled.
dimsVars == <<gpc, browser, launches, outcome, settled>>

\* The state of the converter.
converterVars == <<options, styles, scaleX, scaleY, doc, container, textElements,
                   cursor, slide, pc, xml, calls, fixCount, backup>>

\* The instance, as the methods see it.
This == [options |-> options, styles |-> styles, scaleX |-> scaleX, scaleY |-> scaleY]

\* new HTML2PPTX(): the default options and the scale factors from them.
Constructed ==
    /\ options = [slideWidth |-> I(10), slideHeight |-> <<45, 8>>,
                  htmlWidth |-> I(1280), htmlHeight |-> I(720)]
    /\ styles = <<>>
    /\ scaleX = RDiv(I(10), I(1280))
    /\ scaleY = RDiv(<<45, 8>>, I(720))
    /\ doc = NoDoc
    /\ container = 0
    /\ textElements = <<>>
    /\ cursor = 0
    /\ slide = <<>>

\* No call of getElementDimensions has been made.
DimsIdle ==
    /\ gpc = "idle"
    /\ browser = "undefined"
    /\ launches = 0
    /\ outcome = "none"
    /\ settled = <<>>

\* No file has been written and no call has been made.
NoFile ==
    /\ xml = <<>>
    /\ calls = <<>>
    /\ fixCount = 0
    /\ backup = FALSE

Init ==
    /\ Constructed
    /\ pc = "idle"
    /\ NoFile
    /\ DimsIdle

\* convert(), up to the loop of processElements: the stylesheet is read
\* into the rule table, the container is found, the HTML size and the scale
\* factors are updated and the leaf text elements are collected.
StartConversion(d) ==
    /\ LET table == processCSSRules(styles, d.rules)
           main  == findMainContainer(d)
           opts  == updateDimensionsFromContainer(
                        [This EXCEPT !.styles = table], d, main)
       IN /\ styles' = table
          /\ container' = main
          /\ options' = opts
          /\ scaleX' = RDiv(opts.slideWidth, opts.htmlWidth)
          /\ scaleY' = RDiv(opts.slideHeight, opts.htmlHeight)
          /\ textElements' = findLeafTextElements(d, main)
    /\ doc' = d
    /\ cursor' = 1
    /\ slide' = <<>>
    /\ pc' = "elements"
    /\ calls' = calls \o <<Step("readFileSync", TRUE), Step("addSlide", TRUE)>>
    /\ UNCHANGED <<xml, fixCount, backup, dimsVars>>

\* convert(inputPath, outputPath) on a new instance.
Convert(d) ==
    /\ pc = "idle"
    /\ StartConversion(d)

\* fs.readFileSync(inputPath) throws: the catch of convert throws
\* 'Conversion failed: ...'.
ReadFails ==
    /\ pc = "idle"
    /\ pc' = "failed"
    /\ calls' = Append(calls, Step("readFileSync", FALSE))
    /\ UNCHANGED <<options, styles, scaleX, scaleY, doc, container, textElements,
                   cursor, slide, xml, fixCount, backup, dimsVars>>

\* One iteration of the loop of processElements.
ProcessTextElement ==
    /\ pc = "elements"
    /\ cursor <= Len(textElements)
    /\ slide' = processTextElement(This, doc, slide, textElements[cursor])
    /\ styles' = AfterResolution(This, doc, textElements[cursor]).styles
    /\ options' = AfterResolution(This, doc, textElements[cursor]).options
    /\ cursor' = cursor + 1
    /\ UNCHANGED <<scaleX, scaleY, doc, container, textElements, pc, fileVars,
                   dimsVars>>

\* getComputedStyle, calculateElementPosition or parseTextOptions throws
\* (for instance a RangeError from the recursion over a deep chain of
\* ancestors): these calls are outside the try of processTextElement, which
\* only guards slide.addText, and processElements has none, so the error
\* reaches the catch of convert, which throws 'Conversion failed'.
ResolutionThrows ==
    /\ pc = "elements"
    /\ cursor <= Len(textElements)
    /\ TextLength(doc, textElements[cursor]) > 0
    /\ pc' = "failed"
    /\ calls' = Append(calls, Step("processElements", FALSE))
    /\ UNCHANGED <<options, styles, scaleX, scaleY, doc, container, textElements,
                   cursor, slide, xml, fixCount, backup, dimsVars>>

\* The end of the loop: processSVGElements makes its calls, one addShape
\* for every line and one addText for every text of every svg below the
\* container (their geometry is not modelled).
ProcessSVGElements ==
    /\ pc = "elements"
    /\ cursor > Len(textElements)
    /\ calls' = calls \o processSVGElements(doc, container)
    /\ pc' = "processed"
    /\ UNCHANGED <<options, styles, scaleX, scaleY, doc, container, textElements,
                   cursor, slide, xml, fixCount, backup, dimsVars>>

\* AfterStep without the catch: convert goes on after an error.
AfterStep_ignoreError(ok, next) == next

\* convert after a step that returned (ok) or threw: the next position, or
\* the catch, which throws 'Conversion failed: ' + error.message.
AfterStep(ok, next) == IF ok THEN next ELSE "failed"

\* await this.pptx.writeFile({ fileName: outputPath }).  What PptxGenJS puts
\* into the file is not modelled: xml stays as it is.
WriteFile ==
    /\ pc = "processed"
    /\ \E ok \in BOOLEAN :
          /\ calls' = Append(calls, Step("writeFile", ok))
          /\ pc' = AfterStep(ok, "written")
    /\ UNCHANGED <<options, styles, scaleX, scaleY, doc, container, textElements,
                   cursor, slide, xml, fixCount, backup, dimsVars>>

\* The calls inside fixPPTX that can throw; "none": it returns.
FixFailures == {"none", "AdmZip", "copyFileSync", "writeZip", "unlinkSync"}

\* await fixPPTX(outputPath), which runs without an await of its own:
\* fixXML on the XML of the file, the rewrite if fixCount > 0, and the
\* return of convert with { success: true, outputPath }, or the catch.
FixPPTX ==
    /\ pc = "written"
    /\ \E fail \in FixFailures :
          /\ (fail \in {"copyFileSync", "writeZip", "unlinkSync"}) => ShouldRewrite(xml)
          /\ xml' = fixPPTX(xml, fail).xml
          /\ backup' = fixPPTX(xml, fail).backup
          /\ fixCount' = fixPPTX(xml, fail).fixCount
          /\ calls' = calls \o <<Step("fixPPTX", ~fixPPTX(xml, fail).threw)>>
                            \o fixPPTX(xml, fail).calls
          /\ pc' = AfterStep(~fixPPTX(xml, fail).threw, "done")
    /\ UNCHANGED <<options, styles, scaleX, scaleY, doc, container, textElements,
                   cursor, slide, dimsVars>>

Next ==
    \/ \E d \in Docs : Convert(d)
    \/ ReadFails
    \/ ProcessTextElement
    \/ ResolutionThrows
    \/ ProcessSVGElements
    \/ WriteFile
    \/ FixPPTX

Spec == Init /\ [][Next]_vars

(***************************************************************************)
(* The fixer on its own: a written file with any XML of up to MaxXml       *)
(* elements, on which fixPPTX runs.                                        *)
(***************************************************************************)
MaxXml == 2

XmlElements ==
    { Xml("p:cNvPr", <<Attr("id", NumStr(2)), Attr("name", Str(""))>>, <<>>, "self"),
      Xml("p:cNvPr", <<Attr("id", NumStr(3)), Attr("name", Str(""))>>, <<>>, "pair"),
      Xml("p:cNvPr", <<Attr("name", Str("")), Attr("id", NumStr(2))>>, <<>>, "self"),
      Xml("p:cNvPr", <<Attr("id", NumStr(2)), Attr("name", Str("")),
                       Attr("descr", Str("x"))>>, <<>>, "self"),
      Xml("p:cNvPr", <<Attr("id", NumStr(2)), Attr("name", Str("Title"))>>, <<>>, "self"),
      Xml("a:ln", <<>>, <<>>, "self"),
      Xml("a:ln", <<>>, <<>>, "pair"),
      Xml("a:ln", <<Attr("w", NumStr(9525))>>, <<>>, "self"),
      Xml("a:ext", <<Attr("cx", NumStr(0)), Attr("cy", NumStr(0))>>, <<>>, "self"),
      Xml("a:ext", <<Attr("cx", NumStr(100)), Attr("cy", NumStr(0))>>, <<>>, "self"),
      Xml("a:ext", <<Attr("cy", NumStr(0)), Attr("cx", NumStr(100))>>, <<>>, "self"),
      Xml("a:ext", <<Attr("cx", NumStr(5000)), Attr("cy", NumStr(5000))>>, <<>>, "self"),
      Xml("a:bodyPr", <<Attr("wrap", Str("square"))>>,
          <<"a:normAutofit", "a:spAutoFit">>, "pair"),
      Xml("a:bodyPr", <<>>, <<"a:spAutoFit", "a:normAutofit">>, "pair"),
      Xml("a:latin", <<Attr("typeface", Str("Arial")),
                       Attr("charset", NumStr(-122))>>, <<>>, "self"),
      Xml("a:latin", <<Attr("charset", NumStr(0))>>, <<>>, "self") }

XmlTexts == SeqsUpTo(XmlElements, MaxXml)

InitFixer ==
    /\ Constructed
    /\ pc = "written"
    /\ xml \in XmlTexts
    /\ calls = <<Step("readFileSync", TRUE), Step("addSlide", TRUE),
                 Step("writeFile", TRUE)>>
    /\ fixCount = 0
    /\ backup = FALSE
    /\ DimsIdle

SpecFixer == InitFixer /\ [][FixPPTX]_vars

(***************************************************************************)
(* getElementDimensions as a state machine.  One call runs from "idle" to  *)
(* "idle": gpc is the await the async function stands at, browser the      *)
(* local variable (undefined, an open session, a session whose close() was *)
(* awaited, or one whose close() rejected), launches the sessions the call *)
(* opened and outcome what the call is about to settle with: "dimensions"  *)
(* or the name of the step that threw.  settled records the calls that     *)
(* have settled.  Every awaited step can succeed or throw.                 *)
(***************************************************************************)
MaxCalls == 4

\* The try block is left: by return or by a throw of the step named.
Leave(result) ==
    /\ outcome' = result
    /\ gpc' = "finally"

\* getElementDimensions(htmlFilePath) is called: let browser.
Call ==
    /\ gpc = "idle"
    /\ Len(settled) < MaxCalls
    /\ browser' = "undefined"
    /\ launches' = 0
    /\ outcome' = "none"
    /\ gpc' = "launch"
    /\ UNCHANGED <<settled, converterVars>>

\* browser = await puppeteer.launch(...)
Launch ==
    /\ gpc = "launch"
    /\ \/ /\ browser' = "open"
          /\ launches' = launches + 1
          /\ gpc' = "newPage"
          /\ UNCHANGED outcome
       \/ /\ Leave("launch")
          /\ UNCHANGED <<browser, launches>>
    /\ UNCHANGED <<settled, converterVars>>

\* const page = await browser.newPage()
NewPage ==
    /\ gpc = "newPage"
    /\ \/ gpc' = "readFile" /\ UNCHANGED outcome
       \/ Leave("newPage")
    /\ UNCHANGED <<browser, launches, settled, converterVars>>

\* fs.readFileSync(absolutePath, 'utf8')
ReadFile ==
    /\ gpc = "readFile"
    /\ \/ gpc' = "setContent" /\ UNCHANGED outcome
       \/ Leave("readFile")
    /\ UNCHANGED <<browser, launches, settled, converterVars>>

\* await page.setContent(htmlContent, { waitUntil: 'networkidle0' })
SetContent ==
    /\ gpc = "setContent"
    /\ \/ gpc' = "evaluate" /\ UNCHANGED outcome
       \/ Leave("setContent")
    /\ UNCHANGED <<browser, launches, settled, converterVars>>

\* const dimensions = await page.evaluate(...); return dimensions
Evaluate ==
    /\ gpc = "evaluate"
    /\ \/ Leave("dimensions")
       \/ Leave("evaluate")
    /\ UNCHANGED <<browser, launches, settled, converterVars>>

\* if (browser), with a variant that closes the session only when the try
\* block returned.
CloseInFinally_onSuccess(b, o) == b # "undefined" /\ o = "dimensions"

\* if (browser): the finally block closes whatever session was assigned.
CloseInFinally(b, o) == b # "undefined"

\* finally { if (browser) await browser.close() }: a close() that rejects
\* replaces the pending result.
Finally ==
    /\ gpc = "finally"
    /\ IF CloseInFinally(browser, outcome)
       THEN \/ browser' = "closed" /\ UNCHANGED outcome
            \/ browser' = "closeFailed" /\ outcome' = "close"
       ELSE UNCHANGED <<browser, outcome>>
    /\ gpc' = "settle"
    /\ UNCHANGED <<launches, settled, converterVars>>

\* The promise returned by the call settles.
Settle ==
    /\ gpc = "settle"
    /\ settled' = Append(settled, [outcome |-> outcome, browser |-> browser,
                                   launches |-> launches])
    /\ gpc' = "idle"
    /\ UNCHANGED <<browser, launches, outcome, converterVars>>

NextDims ==
    \/ Call
    \/ Launch
    \/ NewPage
    \/ ReadFile
    \/ SetContent
    \/ Evaluate
    \/ Finally
    \/ Settle

SpecDims == Init /\ [][NextDims]_vars

(***************************************************************************)
(* Properties                                                              *)
(***************************************************************************)
\* The value the style attribute of e declares for P: that of the last
\* fragment 'P: v' with a non-empty value.
InlineDecls(e, P) ==
    {i \in 1..Len(doc.nodes[e].inline) :
        /\ doc.nodes[e].inline[i].prop = P
        /\ Len(doc.nodes[e].inline[i].parts) = 1
        /\ doc.nodes[e].inline[i].parts[1] # NoValue}

InlineValue(e, P) ==
    doc.nodes[e].inline[CHOOSE i \in InlineDecls(e, P) :
                            \A j \in InlineDecls(e, P) : j <= i].parts[1]

TagRuleDeclares(e, P) ==
    /\ HasRule(styles, TagSel(doc.nodes[e].tag))
    /\ P \in DOMAIN RuleOf(styles, TagSel(doc.nodes[e].tag))

ClassRuleDeclares(e, P) ==
    \E i \in 1..Len(doc.nodes[e].cls) :
        /\ HasRule(styles, ClassSel(doc.nodes[e].cls[i]))
        /\ P \in DOMAIN RuleOf(styles, ClassSel(doc.nodes[e].cls[i]))

Properties == {"color", "border-color", "font-weight"}

\* C1: for every element and every property that its tag rule, one of its
\* class rules and its style attribute all declare, the computed style has
\* the value of the style attribute.
C1_InlineWins ==
    \A e \in Elems(doc) : \A P \in Properties :
        (TagRuleDeclares(e, P) /\ ClassRuleDeclares(e, P) /\ InlineDecls(e, P) # {})
            => getComputedStyle(This, doc, e)[P] = InlineValue(e, P)

\* p { color: red }, .x { color: blue }, a matching .box:nth-child rule and
\* style="color: green" on one element, which resolves to green.
C1_Witness ==
    /\ pc = "done"
    /\ \E e \in Elems(doc) :
        /\ TagRuleDeclares(e, "color") /\ ClassRuleDeclares(e, "color")
        /\ InlineDecls(e, "color") # {}
        /\ RuleOf(styles, TagSel("p"))["color"] = Kw("red")
        /\ RuleOf(styles, ClassSel("x"))["color"] = Kw("blue")
        /\ \E i \in 1..Len(styles) :
              NthMatches(styles[i].selector, doc.nodes[e].tag, doc.nodes[e].cls,
                         SiblingIndex(doc, e))
        /\ getComputedStyle(This, doc, e)["color"] = Kw("green")

\* The claim's condition for '<base>:nth-child(n)' to apply to e.
BaseMatches(sel, e) ==
    IF sel.dot THEN HasClass(doc, e, sel.name) ELSE doc.nodes[e].tag = sel.name

StructuralMatch(sel, e) ==
    sel.pseudo /\ BaseMatches(sel, e) /\ SiblingIndex(doc, e) = sel.n - 1

\* The rule table without its i-th entry.
WithoutRule(i) ==
    [This EXCEPT !.styles = SubSeq(styles, 1, i - 1) \o SubSeq(styles, i + 1, Len(styles))]

\* C2: an :nth-child rule changes nothing in the computed style of an
\* element that does not match its base selector at index n-1, and for an
\* element that does, every property of the rule that no later matching
\* :nth-child rule and no inline declaration sets has the rule's value.
C2_NthChildExact ==
    \A e \in Elems(doc) : \A i \in 1..Len(styles) :
        styles[i].selector.pseudo =>
            IF StructuralMatch(styles[i].selector, e)
            THEN \A P \in DOMAIN styles[i].decls :
                    (/\ InlineDecls(e, P) = {}
                     /\ \A j \in (i + 1)..Len(styles) :
                          ~(StructuralMatch(styles[j].selector, e)
                              /\ P \in DOMAIN styles[j].decls))
                        => getComputedStyle(This, doc, e)[P] = styles[i].decls[P]
            ELSE getComputedStyle(This, doc, e) = getComputedStyle(WithoutRule(i), doc, e)

\* '.box:nth-child(2)' applied to the second child, which has the class, and
\* neither to another element of class box nor to body, a second child
\* without the class.
C2_Witness ==
    /\ pc = "done"
    /\ \E i \in 1..Len(styles) : \E e1, e2 \in Elems(doc) :
        /\ styles[i].selector = NthSel(TRUE, "box", 2)
        /\ StructuralMatch(styles[i].selector, e1)
        /\ getComputedStyle(This, doc, e1)["border-color"] = Kw("purple")
        /\ HasClass(doc, e2, "box") /\ SiblingIndex(doc, e2) # 1
        /\ ~Has(getComputedStyle(This, doc, e2), "border-color")
        /\ SiblingIndex(doc, 1) = 1 /\ ~HasClass(doc, 1, "box")
        /\ ~Has(getComputedStyle(This, doc, 1), "border-color")

Boxes == 1..Len(slide)

\* The box added for element e.
BoxOf(e) == slide[CHOOSE i \in Boxes : slide[i].elem = e]

StyleOf(e) == getComputedStyle(This, doc, e)

PaddingOf(st) == parsePixelValue(This, Or(st, "padding", Num(0)))

\* C3: in a column flex parent with a declared height H, gap g and no
\* padding whose n children all declare flex, every child gets the height
\* (H - g*(n-1))/n and the i-th child lies i*(height + g) below the first.
C3_FlexColumnLayout ==
    \A b \in Boxes :
        LET e    == slide[b].elem
            p    == Parent(doc, e)
            ps   == StyleOf(p)
            kids == ChildSet(doc, p)
            n    == Cardinality(kids)
            H    == parsePixelValue(This, ps["height"])
            g    == parsePixelValue(This, Or(ps, "gap", Num(0)))
            each == RDiv(RSub(H, RMul(g, I(n - 1))), I(n))
            step == RMul(I(SiblingIndex(doc, e)), RAdd(each, g))
        IN (/\ IsFlexColumn(ps) /\ Has(ps, "height") /\ PaddingOf(ps) = Zero
            /\ \A k \in kids : Has(StyleOf(k), "flex"))
            => /\ slide[b].h = RMul(each, scaleY)
               /\ RSub(slide[b].y, BoxOf(SiblingAt(doc, p, 0)).y) = RMul(step, scaleY)

\* C4: no text box of width 0 is added to the slide.
C4_ZeroWidthSuppressed ==
    \A b \in Boxes : slide[b].w # Zero

\* The instance with both scale factors set to 1: its geometry is in HTML
\* pixels.
Unscaled == [This EXCEPT !.scaleX = I(1), !.scaleY = I(1)]

SourceGeometry(e) ==
    calculateElementPosition(Unscaled, doc, e, getComputedStyle(Unscaled, doc, e))

\* C5: every box on the slide is the geometry in HTML pixels multiplied
\* once by slideWidth/htmlWidth (x, w) and slideHeight/htmlHeight (y, h).
C5_ScaledOnce ==
    \A b \in Boxes :
        LET src == SourceGeometry(slide[b].elem)
            sx  == RDiv(options.slideWidth, options.htmlWidth)
            sy  == RDiv(options.slideHeight, options.htmlHeight)
        IN /\ slide[b].x = RMul(src.x, sx)
           /\ slide[b].y = RMul(src.y, sy)
           /\ slide[b].w = RMul(src.w, sx)
           /\ slide[b].h = RMul(src.h, sy)

\* 1280 x 720 mapped to 10 x 5.625: {640, 360, 100, 50} becomes
\* {5, 2.8125, 0.78125, 0.390625}.
C5_Witness ==
    /\ pc = "done"
    /\ options.htmlWidth = I(1280) /\ options.htmlHeight = I(720)
    /\ \E b \in Boxes :
        /\ SourceGeometry(slide[b].elem) =
                [x |-> I(640), y |-> I(360), w |-> I(100), h |-> I(50)]
        /\ slide[b].x = I(5) /\ slide[b].y = <<45, 16>>
        /\ slide[b].w = <<25, 32>> /\ slide[b].h = <<25, 64>>

\* C6: an element whose position is absolute or fixed gets its own left,
\* top, width and height as its geometry in HTML pixels.
C6_AbsoluteUsesOwnOffsets ==
    \A b \in Boxes :
        LET st == StyleOf(slide[b].elem)
        IN (Is(st, "position", "absolute") \/ Is(st, "position", "fixed"))
            => /\ slide[b].x = RMul(parsePixelValue(This, Or(st, "left", Num(0))), scaleX)
               /\ slide[b].y = RMul(parsePixelValue(This, Or(st, "top", Num(0))), scaleY)
               /\ slide[b].w = RMul(parsePixelValue(This, st["width"]), scaleX)
               /\ slide[b].h = RMul(parsePixelValue(This, st["height"]), scaleY)

InFlow(e) ==
    ~(Is(StyleOf(e), "position", "absolute") \/ Is(StyleOf(e), "position", "fixed"))

\* C7: of two in-flow siblings in a normal-flow or column container, the
\* later one starts at or below the bottom of the earlier one.
C7_NoVerticalOverlap ==
    \A a, b \in Boxes :
        LET ea == slide[a].elem
            eb == slide[b].elem
            ps == StyleOf(Parent(doc, ea))
        IN (/\ Parent(doc, ea) = Parent(doc, eb) /\ ea < eb
            /\ InFlow(ea) /\ InFlow(eb)
            /\ (~Is(ps, "display", "flex") \/ IsFlexColumn(ps)))
            => RLe(RAdd(slide[a].y, slide[a].h), slide[b].y)

\* C8: two consecutive children of a display:flex row container have the
\* same y, and the second starts to the right of the first one's right edge.
C8_FlexRowSideBySide ==
    \A a, b \in Boxes :
        LET ea == slide[a].elem
            eb == slide[b].elem
            ps == StyleOf(Parent(doc, ea))
        IN (/\ Parent(doc, ea) = Parent(doc, eb)
            /\ SiblingIndex(doc, eb) = SiblingIndex(doc, ea) + 1
            /\ InFlow(ea) /\ InFlow(eb)
            /\ Is(ps, "display", "flex") /\ ~IsFlexColumn(ps))
            => /\ slide[a].y = slide[b].y
               /\ RLt(RAdd(slide[a].x, slide[a].w), slide[b].x)

\* C9: every text box lies inside the slide.
C9_InsideSlide ==
    \A b \in Boxes :
        /\ RLe(Zero, slide[b].x) /\ RLe(Zero, slide[b].y)
        /\ RLe(RAdd(slide[b].x, slide[b].w), options.slideWidth)
        /\ RLe(RAdd(slide[b].y, slide[b].h), options.slideHeight)

\* C10: no text box has a negative width or height.
C10_NoNegativeDimension ==
    \A b \in Boxes : RLe(Zero, slide[b].w) /\ RLe(Zero, slide[b].h)

\* C11: a step of the loop on a leaf element, whether its resolution
\* succeeds or raises, keeps the boxes of the earlier elements and moves on
\* to the next element, so that the loop reaches the end and the file is
\* written.
C11_FailureContained ==
    [][(pc = "elements" /\ cursor <= Len(textElements))
          => /\ pc' = "elements"
             /\ cursor' = cursor + 1
             /\ Len(slide') >= Len(slide)
             /\ SubSeq(slide', 1, Len(slide)) = slide]_vars

\* The geometry that resolving e in the current state returns.
Resolved(e) ==
    calculateElementPosition(This, doc, e, getComputedStyle(This, doc, e))

UpTo(e) == [doc EXCEPT !.nodes = SubSeq(doc.nodes, 1, e)]

\* Every element after e in document order is a later sibling of e.
OnlySiblingsFollow(e) ==
    \A c \in Elems(doc) : c > e => Parent(doc, c) = Parent(doc, e)

\* C13: the box of an element that is followed by later siblings only is
\* the geometry the element resolves to in the document without them.
C13_LaterSiblingsIrrelevant ==
    \A b \in Boxes :
        OnlySiblingsFollow(slide[b].elem)
            => calculateElementPosition(This, UpTo(slide[b].elem), slide[b].elem,
                   getComputedStyle(This, UpTo(slide[b].elem), slide[b].elem))
               = [x |-> slide[b].x, y |-> slide[b].y,
                  w |-> slide[b].w, h |-> slide[b].h]

\* C14: no element collected by findLeafTextElements is a descendant of
\* another collected element.
C14_LeavesOnly ==
    \A i, j \in 1..Len(textElements) :
        ~Descendant(doc, textElements[j], textElements[i])

\* The size the container declares for the width (p = "width") or for the
\* height (the height, or the min-height when no height is declared).
ContainerDecl(p) ==
    IF p = "width" THEN Or(StyleOf(container), "width", NoValue)
    ELSE Or(StyleOf(container), "height",
            Or(StyleOf(container), "min-height", NoValue))

\* The declared size is a positive number of pixels.
PositivePx(v) == v.kw = "#" /\ v.unit = "px" /\ RLt(Zero, v.n)

\* The declared size is absent, a keyword or a number that is not positive.
Unusable(v) == v.kw # "#" \/ RLe(v.n, Zero)

\* C15: from the end of the set-up of convert on (the first leaf is not yet
\* resolved), htmlWidth and htmlHeight are the positive pixel sizes the
\* container declares, or the defaults 1280 and 720 where the declared size
\* is absent or not positive, and the scale factors are slideWidth/htmlWidth
\* and slideHeight/htmlHeight.
C15_ContainerSize ==
    doc # NoDoc =>
        /\ PositivePx(ContainerDecl("width"))
              => options.htmlWidth = ContainerDecl("width").n
        /\ Unusable(ContainerDecl("width")) => options.htmlWidth = I(1280)
        /\ PositivePx(ContainerDecl("height"))
              => options.htmlHeight = ContainerDecl("height").n
        /\ Unusable(ContainerDecl("height")) => options.htmlHeight = I(720)
        /\ scaleX = RDiv(options.slideWidth, options.htmlWidth)
        /\ scaleY = RDiv(options.slideHeight, options.htmlHeight)

\* A container of 1000 x 500: 10 in / 1000 px and 5.625 in / 500 px before
\* the first element is resolved.
C15_Witness ==
    /\ pc = "elements" /\ cursor = 1 /\ slide = <<>>
    /\ Len(textElements) > 0
    /\ ContainerDecl("width") = Px(1000) /\ ContainerDecl("height") = Px(500)
    /\ options.htmlWidth = I(1000) /\ options.htmlHeight = I(500)
    /\ scaleX = <<1, 100>> /\ scaleY = <<9, 800>>

\* The element has an attribute k with the value v.
HasAttr(el, k, v) == \E i \in 1..Len(el.attrs) : el.attrs[i] = Attr(k, v)

\* C16: the XML that fixXML returns has no p:cNvPr with name="", no a:ln
\* without attributes and content, no a:ext with cx="0" or cy="0", no
\* a:bodyPr with both a:normAutofit and a:spAutoFit, and no negative charset.
C16_FixedXml ==
    pc = "done" =>
        \A i \in 1..Len(xml) :
            /\ ~(xml[i].name = "p:cNvPr" /\ HasAttr(xml[i], "name", Str("")))
            /\ ~IsEmptyLn(xml[i])
            /\ ~(xml[i].name = "a:ext"
                    /\ (HasAttr(xml[i], "cx", NumStr(0)) \/ HasAttr(xml[i], "cy", NumStr(0))))
            /\ ~(xml[i].name = "a:bodyPr"
                    /\ \E j, k \in 1..Len(xml[i].kids) :
                          xml[i].kids[j] = "a:normAutofit" /\ xml[i].kids[k] = "a:spAutoFit")
            /\ \A j \in 1..Len(xml[i].attrs) :
                  ~(xml[i].attrs[j].k = "charset" /\ xml[i].attrs[j].v.n < 0)

\* C17: a call of getElementDimensions opens at most one browser session,
\* and when its promise settles a session it opened has been closed (unless
\* close() itself rejected) and no session is left open, whether the call
\* returns the dimensions or newPage, file reading, setContent or
\* page.evaluate threw; a call whose launch failed has no session.
C17_BrowserClosed ==
    /\ launches <= 1
    /\ gpc = "idle" => browser # "open"
    /\ \A i \in 1..Len(settled) :
          /\ settled[i].launches <= 1
          /\ settled[i].browser # "open"
          /\ settled[i].launches = 1 /\ settled[i].outcome # "close"
                => settled[i].browser = "closed"
          /\ settled[i].launches = 0 <=> settled[i].browser = "undefined"

\* Calls that failed in setContent, in file reading and in page.evaluate
\* and a call that succeeded have settled, each with its session closed.
C17_Witness ==
    /\ gpc = "idle"
    /\ \A o \in {"setContent", "readFile", "evaluate", "dimensions"} :
          \E i \in 1..Len(settled) :
              settled[i] = [outcome |-> o, browser |-> "closed", launches |-> 1]

\* The rules of the stylesheet, by position, that have an :nth-child
\* selector matching e and declare P.
StructuralRules(e, P) ==
    {r \in 1..Len(doc.rules) :
        /\ \E k \in 1..Len(doc.rules[r].selectors) :
              StructuralMatch(doc.rules[r].selectors[k], e)
        /\ P \in DOMAIN DeclsToStyle(doc.rules[r].declarations, EmptyStyle)}

LastStructuralRule(e, P) ==
    CHOOSE r \in StructuralRules(e, P) : \A q \in StructuralRules(e, P) : q <= r

\* C18: for every element and every property declared by at least one
\* matching :nth-child rule, the computed style has the inline value when
\* the style attribute declares the property and otherwise the value of the
\* matching :nth-child rule that comes last in the stylesheet.
C18_LastStructuralRuleWins ==
    \A e \in Elems(doc) : \A P \in Properties :
        StructuralRules(e, P) # {} =>
            getComputedStyle(This, doc, e)[P] =
                IF InlineDecls(e, P) # {} THEN InlineValue(e, P)
                ELSE DeclsToStyle(doc.rules[LastStructuralRule(e, P)].declarations,
                                  EmptyStyle)[P]

\* Whether the rule has sel in its selector list.
Mentions(rule, sel) ==
    \E k \in 1..Len(rule.selectors) : rule.selectors[k] = sel

\* The declarations of P in a rule, by position.
DeclsOf(rule, P) ==
    {i \in 1..Len(rule.declarations) : rule.declarations[i].property = P}

\* The rules of the stylesheet, by position, that declare P for sel.
RulesFor(sel, P) ==
    {r \in 1..Len(doc.rules) : Mentions(doc.rules[r], sel) /\ DeclsOf(doc.rules[r], P) # {}}

\* The value of the last declaration of P for sel in the stylesheet.
LastDeclared(sel, P) ==
    LET r == CHOOSE r \in RulesFor(sel, P) : \A q \in RulesFor(sel, P) : q <= r
        i == CHOOSE i \in DeclsOf(doc.rules[r], P) :
                 \A j \in DeclsOf(doc.rules[r], P) : j <= i
    IN doc.rules[r].declarations[i].value

\* C19: after the stylesheet has been processed, the table has an entry for
\* exactly the selectors of the stylesheet; the entry of a selector has
\* exactly the properties some rule declared for that selector, each with
\* the value of the last such declaration, and it is the entry that the
\* rules mentioning the selector produce on their own.
C19_RulesAccumulate ==
    doc # NoDoc =>
        /\ \A i \in 1..Len(styles) :
              \E r \in 1..Len(doc.rules) : Mentions(doc.rules[r], styles[i].selector)
        /\ \A r \in 1..Len(doc.rules) : \A k \in 1..Len(doc.rules[r].selectors) :
              /\ HasRule(styles, doc.rules[r].selectors[k])
              /\ \A P \in Properties :
                    IF RulesFor(doc.rules[r].selectors[k], P) = {}
                    THEN P \notin DOMAIN RuleOf(styles, doc.rules[r].selectors[k])
                    ELSE /\ P \in DOMAIN RuleOf(styles, doc.rules[r].selectors[k])
                         /\ RuleOf(styles, doc.rules[r].selectors[k])[P]
                               = LastDeclared(doc.rules[r].selectors[k], P)
              /\ DOMAIN RuleOf(styles, doc.rules[r].selectors[k]) \subseteq Properties
              /\ RuleOf(styles, doc.rules[r].selectors[k]) =
                    RuleOf(processCSSRules(<<>>,
                               SelectSeq(doc.rules,
                                   LAMBDA rule : Mentions(rule, doc.rules[r].selectors[k]))),
                           doc.rules[r].selectors[k])

\* p { color: red; border-color: red }, .box { color: blue },
\* p, .box { color: gray; font-weight: bold; color: black } and
\* div { font-weight: normal } have been processed: p keeps border-color
\* from its first rule and has the last color, .box has no border-color and
\* div only its own declaration.
C19_Witness ==
    /\ pc = "done"
    /\ doc.rules = Sheet4
    /\ RuleOf(styles, TagSel("p")) =
          ("color" :> Kw("black")) @@ ("border-color" :> Kw("red"))
              @@ ("font-weight" :> Kw("bold"))
    /\ RuleOf(styles, ClassSel("box")) =
          ("color" :> Kw("black")) @@ ("font-weight" :> Kw("bold"))
    /\ RuleOf(styles, TagSel("div")) = ("font-weight" :> Kw("normal"))

\* The sum, over the first n children of the parent of e, of the height of
\* the child and its margin-bottom.
RECURSIVE PrecedingHeights(_, _)
PrecedingHeights(e, n) ==
    IF n = 0 THEN Zero
    ELSE RAdd(PrecedingHeights(e, n - 1),
              RAdd(ElementHeight(This,
                       getComputedStyle(This, doc, SiblingAt(doc, Parent(doc, e), n - 1)),
                       TextLength(doc, SiblingAt(doc, Parent(doc, e), n - 1))),
                   Pixels(This,
                       getComputedStyle(This, doc, SiblingAt(doc, Parent(doc, e), n - 1)),
                       "margin-bottom")))

\* C20: for every emitted box whose parent is not a flex column, the
\* vertical offset of the element inside its parent, in HTML pixels, is the
\* sum over its preceding siblings of height plus margin-bottom, plus the
\* padding of the parent, plus the margin-top of the element itself; for a
\* first child that is the padding plus the margin-top.
C20_FlowOffset ==
    \A b \in Boxes :
        ~IsFlexColumn(getComputedStyle(This, doc, Parent(doc, slide[b].elem)))
            => FlowOffset(This, doc, slide[b].elem,
                          getComputedStyle(This, doc, Parent(doc, slide[b].elem)),
                          getComputedStyle(This, doc, slide[b].elem)).y
               = RAdd(PrecedingHeights(slide[b].elem, SiblingIndex(doc, slide[b].elem)),
                      RAdd(Pixels(This,
                               getComputedStyle(This, doc, Parent(doc, slide[b].elem)),
                               "padding"),
                           Pixels(This, getComputedStyle(This, doc, slide[b].elem),
                                  "margin-top")))

\* The grandparent of e is a display:flex, flex-direction:column,
\* justify-content:center container.
InCentredGroup(e) ==
    /\ Parent(doc, e) # 0 /\ doc.nodes[Parent(doc, e)].tag # "body"
    /\ Is(StyleOf(Parent(doc, Parent(doc, e))), "display", "flex")
    /\ Is(StyleOf(Parent(doc, Parent(doc, e))), "flex-direction", "column")
    /\ Is(StyleOf(Parent(doc, Parent(doc, e))), "justify-content", "center")

\* The y of e in HTML pixels before the group is centred: the offset in the
\* parent plus the position of the parent.
UncentredY(e) ==
    PlaceInParent(This, doc, e, StyleOf(Parent(doc, e)), StyleOf(e),
        ElementWidth(This, StyleOf(e), StyleOf(Parent(doc, e))),
        ParentPosition(This, doc, Parent(doc, e),
            StyleOf(Parent(doc, Parent(doc, e))), StyleOf(Parent(doc, e)))).y

\* (grandparentHeight - totalContentHeight) / 2 for the group of e.
GroupOffset(e) ==
    RDiv(RSub(parsePixelValue(This,
                  Or(StyleOf(Parent(doc, Parent(doc, e))), "height",
                     Or(StyleOf(Parent(doc, Parent(doc, e))), "min-height",
                        Dim(options.htmlHeight, "")))),
              TotalContentHeight(This, doc, ChildSet(doc, Parent(doc, e)))),
         I(2))

ParentX(e) ==
    IF doc.nodes[Parent(doc, e)].tag = "body" THEN Zero
    ELSE ParentPosition(This, doc, Parent(doc, e),
             StyleOf(Parent(doc, Parent(doc, e))), StyleOf(Parent(doc, e))).x

\* The resolved width of the parent less twice its padding.
ParentAvailableWidth(e) ==
    RSub(parsePixelValue(This,
             Or(StyleOf(Parent(doc, e)), "width", Dim(options.htmlWidth, ""))),
         RMul(PaddingOf(StyleOf(Parent(doc, e))), I(2)))

CentredText(e) ==
    \/ Is(StyleOf(e), "text-align", "center")
    \/ Is(StyleOf(Parent(doc, e)), "text-align", "center")

\* C22: the box of an element whose own or whose parent's text-align is
\* center has, before scaling, the x (parentAvailableWidth - width)/2 plus
\* the x of the parent plus the padding of the parent.
C22_CentredInsidePadding ==
    \A b \in Boxes :
        CentredText(slide[b].elem) =>
            slide[b].x =
                RMul(RAdd(RDiv(RSub(ParentAvailableWidth(slide[b].elem),
                                    RDiv(slide[b].w, scaleX)), I(2)),
                          RAdd(ParentX(slide[b].elem),
                               PaddingOf(StyleOf(Parent(doc, slide[b].elem))))),
                     scaleX)

\* lineHeight * ceil(textLength / 50) + fontSize * 0.5 for element e, with
\* fontSize = parseFontSize(font-size || '16px') and lineHeight the declared
\* line-height or fontSize * 1.2.
FontSizeOf(e) == parseFontSize(Or(StyleOf(e), "font-size", Px(16)))

LineHeightOf(e) ==
    IF Has(StyleOf(e), "line-height")
    THEN parsePixelValue(This, StyleOf(e)["line-height"])
    ELSE RMul(FontSizeOf(e), <<6, 5>>)

LinesOf(e) ==
    CHOOSE n \in 0..TextLength(doc, e) :
        50 * n >= TextLength(doc, e) /\ 50 * (n - 1) < TextLength(doc, e)

EstimatedHeight(e) ==
    RAdd(RMul(LineHeightOf(e), I(LinesOf(e))), RDiv(FontSizeOf(e), I(2)))

\* e is laid out in normal flow: its parent is not a flex column.
NormalFlow(e) == ~IsFlexColumn(StyleOf(Parent(doc, e)))

\* b holds the box of the sibling that directly follows the element of a.
NextSibling(a, b) ==
    /\ Parent(doc, slide[a].elem) = Parent(doc, slide[b].elem)
    /\ SiblingIndex(doc, slide[b].elem) = SiblingIndex(doc, slide[a].elem) + 1

\* C23: a box of a normal-flow element without a declared height has the
\* estimated height, and the box of the next sibling lies below it by that
\* same height plus the margin-bottom of the element and the margin-top of
\* the sibling (less the element's own margin-top when it was counted in
\* its offset, which is the case unless it is the first child).
C23_EstimatedHeight ==
    \A a \in Boxes :
        (NormalFlow(slide[a].elem) /\ ~Has(StyleOf(slide[a].elem), "height")) =>
            /\ slide[a].h = RMul(EstimatedHeight(slide[a].elem), scaleY)
            /\ \A b \in Boxes :
                  NextSibling(a, b) =>
                      RSub(slide[b].y, slide[a].y) =
                          RAdd(slide[a].h,
                               RMul(RSub(RAdd(Pixels(This, StyleOf(slide[a].elem),
                                                     "margin-bottom"),
                                              Pixels(This, StyleOf(slide[b].elem),
                                                     "margin-top")),
                                         IF SiblingIndex(doc, slide[a].elem) > 0
                                         THEN Pixels(This, StyleOf(slide[a].elem),
                                                     "margin-top")
                                         ELSE Zero),
                                    scaleY))

\* A paragraph of 120 characters at font-size 20px (17pt, three lines of
\* 20.4 px and 8.5 px: 69.7 px) followed by a paragraph with a declared
\* line-height of 30px and 51 characters (two lines), followed by a third.
C23_Witness ==
    /\ pc = "done"
    /\ Len(slide) = 3
    /\ doc \in TextDocs
    /\ TextLength(doc, slide[1].elem) = 120
    /\ slide[1].h = RMul(<<697, 10>>, scaleY)
    /\ Has(StyleOf(slide[2].elem), "line-height")
    /\ slide[2].h = RMul(I(67), scaleY)
    /\ slide[2].y = slide[1].h
    /\ slide[3].y = RAdd(slide[2].y, RAdd(slide[2].h, RMul(I(18), scaleY)))

\* e declares flex and its parent is a flex column that declares neither
\* height nor min-height.
FlexItemOfUnsizedColumn(e) ==
    /\ IsFlexColumn(StyleOf(Parent(doc, e)))
    /\ Has(StyleOf(e), "flex")
    /\ ~Has(StyleOf(Parent(doc, e)), "height")
    /\ ~Has(StyleOf(Parent(doc, e)), "min-height")

\* C24: the box of a flex item of a flex column without declared height has
\* the height (htmlHeight - 2 * padding - gap * (siblings - 1)) / flexCount,
\* htmlHeight being the canvas height of the conversion (the height the
\* container declares, when it declares one) and flexCount, the number of
\* siblings declaring flex, being at least 1.
C24_FlexHeightFromCanvas ==
    \A b \in Boxes :
        FlexItemOfUnsizedColumn(slide[b].elem) =>
            /\ FlexCount(This, doc, Parent(doc, slide[b].elem)) >= 1
            /\ slide[b].h =
                  RMul(RDiv(RSub(RSub(options.htmlHeight,
                                      RMul(PaddingOf(StyleOf(Parent(doc, slide[b].elem))),
                                           I(2))),
                                 RMul(Pixels(This, StyleOf(Parent(doc, slide[b].elem)),
                                             "gap"),
                                      I(Cardinality(ChildSet(doc,
                                            Parent(doc, slide[b].elem))) - 1))),
                            I(FlexCount(This, doc, Parent(doc, slide[b].elem)))),
                       scaleY)

\* No element of the document centres text or content.
NothingCentred ==
    \A n \in Elems(doc) :
        /\ ~Is(StyleOf(n), "text-align", "center")
        /\ ~Is(StyleOf(n), "justify-content", "center")

Positioned(n) ==
    Is(StyleOf(n), "position", "absolute") \/ Is(StyleOf(n), "position", "fixed")

\* The offset the walk over the ancestors is to give: nothing for an element
\* without a parent, for body and for the root container; the declared left
\* and top for an absolute or fixed ancestor, where the walk stops; the
\* offset in the parent plus the offset of the parent otherwise.
RECURSIVE AccumulatedOffset(_)
AccumulatedOffset(n) ==
    IF n = 0 \/ Parent(doc, n) = 0 \/ n = container \/ doc.nodes[n].tag = "body"
    THEN [x |-> Zero, y |-> Zero]
    ELSE IF Positioned(n) /\ n \notin {slide[b].elem : b \in Boxes}
    THEN [x |-> Pixels(This, StyleOf(n), "left"), y |-> Pixels(This, StyleOf(n), "top")]
    ELSE AddParentPosition(This,
             FlowOffset(This, doc, n, StyleOf(Parent(doc, n)), StyleOf(n)),
             AccumulatedOffset(Parent(doc, n)))

\* C25: where nothing is centred, the position of every box is the offset
\* accumulated over the ancestors below the root container, the walk ending
\* at the root container or at the first absolute or fixed ancestor.
C25_OffsetBelowRoot ==
    NothingCentred =>
        \A b \in Boxes :
            /\ slide[b].x = RMul(AccumulatedOffset(slide[b].elem).x, scaleX)
            /\ slide[b].y = RMul(AccumulatedOffset(slide[b].elem).y, scaleY)

\* The fragments of the style attribute of e that have a property name and
\* a value, by position.
WellFormed(e) ==
    {i \in 1..Len(doc.nodes[e].inline) :
        /\ doc.nodes[e].inline[i].prop # ""
        /\ Len(doc.nodes[e].inline[i].parts) >= 1
        /\ doc.nodes[e].inline[i].parts[1] # NoValue}

\* The last well-formed fragment of e for the property of fragment i.
LastFor(e, i) ==
    \A j \in WellFormed(e) :
        doc.nodes[e].inline[j].prop = doc.nodes[e].inline[i].prop => j <= i

\* The document with the style attribute of e removed.
WithoutInline(e) == [doc EXCEPT !.nodes[e].inline = <<>>]

\* C26: the computed style of an element has, for every well-formed
\* fragment of its style attribute (the last one of a property), the
\* complete declared value, all the text between the first ':' and the
\* ';', and the style attribute adds or changes no property other than
\* those of its well-formed fragments.
C26_FragmentsIndependent ==
    \A e \in Elems(doc) :
        /\ \A i \in WellFormed(e) :
              LastFor(e, i) =>
                  /\ doc.nodes[e].inline[i].prop \in DOMAIN StyleOf(e)
                  /\ <<StyleOf(e)[doc.nodes[e].inline[i].prop]>>
                        = doc.nodes[e].inline[i].parts
        /\ \A P \in DOMAIN StyleOf(e) :
              (\A i \in WellFormed(e) : doc.nodes[e].inline[i].prop # P)
                  => /\ P \in DOMAIN getComputedStyle(This, WithoutInline(e), e)
                     /\ StyleOf(e)[P] = getComputedStyle(This, WithoutInline(e), e)[P]

\* An addShape call of processSVGElements has been made.
SvgShapeAdded == \E k \in 1..Len(calls) : calls[k].call = "addShape"

CallIn(cs, c) ==
    IF \E k \in 1..Len(cs) : cs[k].call = c
    THEN CHOOSE k \in 1..Len(cs) :
             cs[k].call = c /\ \A j \in 1..(k - 1) : cs[j].call # c
    ELSE 0

FirstCall(c) == CallIn(calls, c)

SomeCallThrew == \E k \in 1..Len(calls) : ~calls[k].ok

\* C28: fixPPTX is called only after writeFile has returned; convert has
\* resolved with success (pc = "done") only if fixPPTX was called and
\* returned and no call threw; as soon as a call has thrown, convert has
\* rejected with 'Conversion failed: ...' (pc = "failed"), and it stays
\* rejected.
C28_FixAfterWrite ==
    /\ [](FirstCall("fixPPTX") # 0 =>
              /\ FirstCall("writeFile") # 0
              /\ FirstCall("writeFile") < FirstCall("fixPPTX")
              /\ calls[FirstCall("writeFile")].ok)
    /\ [](pc = "done" =>
              /\ FirstCall("fixPPTX") # 0
              /\ calls[FirstCall("fixPPTX")].ok
              /\ ~SomeCallThrew)
    /\ [](SomeCallThrew => pc = "failed")
    /\ [][pc = "failed" => pc' = "failed"]_vars

\* A conversion has resolved with success: writeFile returned, then fixPPTX
\* was called and returned, and two text boxes are on the slide.
C28_Witness ==
    /\ pc = "done"
    /\ FirstCall("writeFile") # 0
    /\ FirstCall("fixPPTX") = FirstCall("writeFile") + 1
    /\ calls[FirstCall("fixPPTX")].ok
    /\ Len(slide) = 2

\* The call named c was made in the log cs and returned.
Returned(cs, c) == CallIn(cs, c) # 0 /\ cs[CallIn(cs, c)].ok

\* C29: once fixPPTX has opened the file, fixCount > 0 exactly when fixXML
\* changed the XML; the file is written (writeZip) only if the XML changed
\* and only after the backup was copied; when fixPPTX returns, the file was
\* written exactly when the XML changed, its XML is then the fixed XML, the
\* backup was removed after the write and no backup remains; when fixXML
\* changes nothing, neither the file nor a backup is written.
C29_RewriteIffChanged ==
    [][pc = "written" /\ Returned(calls', "AdmZip") =>
          /\ (fixCount' > 0) <=> (fixXML(xml) # xml)
          /\ CallIn(calls', "writeZip") # 0 =>
                /\ fixXML(xml) # xml
                /\ Returned(calls', "copyFileSync")
                /\ CallIn(calls', "copyFileSync") < CallIn(calls', "writeZip")
          /\ pc' = "done" =>
                /\ Returned(calls', "writeZip") <=> (fixXML(xml) # xml)
                /\ xml' = fixXML(xml)
                /\ ~backup'
                /\ Returned(calls', "writeZip") =>
                      /\ Returned(calls', "unlinkSync")
                      /\ CallIn(calls', "writeZip") < CallIn(calls', "unlinkSync")
          /\ fixXML(xml) = xml =>
                /\ xml' = xml
                /\ ~backup'
                /\ CallIn(calls', "copyFileSync") = 0
                /\ CallIn(calls', "writeZip") = 0
    ]_vars

\* fixPPTX has returned after removing the one element of the file, a
\* <a:ln/> or a <a:ln></a:ln>: one fix counted, the backup copied, the file
\* written and the backup removed.
C29_Witness ==
    /\ pc = "done"
    /\ fixCount = 1
    /\ xml = <<>>
    /\ ~backup
    /\ Returned(calls, "copyFileSync")
    /\ Returned(calls, "writeZip")
    /\ Returned(calls, "unlinkSync")

(***************************************************************************)
(* One instance used for several conversions: convert() is called again    *)
(* on the instance after a conversion has resolved.  The constructor is    *)
(* the only place that creates this.pptx, this.styles and the default      *)
(* options.                                                                *)
(***************************************************************************)
MaxConversions == 2

\* A document without stylesheet and without container size, the same
\* elements under a stylesheet, and documents whose container has a size.
IsolationDocs ==
    { [nodes |-> <<Body, El("div", 1, <<>>, <<>>, 0), El("p", 2, <<>>, <<>>, 5)>>,
       rules |-> <<>>],
      [nodes |-> <<Body, El("div", 1, <<>>, <<>>, 0), El("p", 2, <<>>, <<>>, 5)>>,
       rules |-> Sheet1(1)],
      [nodes |-> <<Body, El("div", 1, <<>>, <<>>, 0), El("p", 2, <<"x">>, <<>>, 5),
                   El("p", 2, <<>>, <<>>, 5)>>,
       rules |-> Sheet2(1)],
      LayoutDoc(<<>>, <<>>, << El("p", 3, <<>>, <<>>, 5) >>),
      LayoutDoc(<< D("width", Px(640)), D("height", Px(360)) >>, <<>>,
                << El("p", 3, <<>>, <<>>, 5) >>),
      LayoutDoc(<< D("width", Px(1000)) >>, <<>>,
                << El("p", 3, <<>>, <<>>, 5), El("p", 3, <<>>, <<>>, 5) >>) }

\* The slides of this.pptx: one for every addSlide.
SlideCount == Cardinality({k \in 1..Len(calls) : calls[k] = Step("addSlide", TRUE)})

\* convert(inputPath, outputPath) on an instance that has converted before:
\* the same method on the fields as the earlier conversion left them.
ConvertAgain(d) ==
    /\ pc = "done"
    /\ SlideCount < MaxConversions
    /\ StartConversion(d)

NextTwice ==
    \/ \E d \in IsolationDocs : Convert(d)
    \/ \E d \in IsolationDocs : ConvertAgain(d)
    \/ ReadFails
    \/ ProcessTextElement
    \/ ResolutionThrows
    \/ ProcessSVGElements
    \/ WriteFile
    \/ FixPPTX

SpecTwice == Init /\ [][NextTwice]_vars

\* new HTML2PPTX(), as the methods see it.
NewInstance ==
    [options |-> [slideWidth |-> I(10), slideHeight |-> <<45, 8>>,
                  htmlWidth |-> I(1280), htmlHeight |-> I(720)],
     styles |-> <<>>,
     scaleX |-> RDiv(I(10), I(1280)),
     scaleY |-> RDiv(<<45, 8>>, I(720))]

\* The rule table and the options of a new instance that converts d.
FreshStyles(d) == processCSSRules(NewInstance.styles, d.rules)

FreshOptions(d) ==
    updateDimensionsFromContainer([NewInstance EXCEPT !.styles = FreshStyles(d)],
                                  d, findMainContainer(d))

\* The new instance while it converts d.
Fresh(d) ==
    [options |-> FreshOptions(d),
     styles |-> FreshStyles(d),
     scaleX |-> RDiv(FreshOptions(d).slideWidth, FreshOptions(d).htmlWidth),
     scaleY |-> RDiv(FreshOptions(d).slideHeight, FreshOptions(d).htmlHeight)]

Converting == pc \in {"elements", "processed", "written", "done"}

\* C30: while and after an instance converts a document, its rule table,
\* its source canvas size and scale factors and the computed style of every
\* element are those of a new instance converting the same document, and
\* the presentation holds one slide, whatever the instance converted before.
C30_ConversionsIsolated ==
    Converting =>
        /\ This = Fresh(doc)
        /\ \A e \in Elems(doc) :
              getComputedStyle(This, doc, e) = getComputedStyle(Fresh(doc), doc, e)
        /\ SlideCount = 1

====
